---- MODULE Spec2Model ----
(***************************************************************************)
(* Verification model of go-aspects: the fact merger (merge_json_deps),    *)
(* the call-graph builder's command line (vta_analyzer_simple), the        *)
(* dependency aspects that drive the merger over the build graph, and the  *)
(* file-name function of the aspects.                                      *)
(***************************************************************************)
EXTENDS Integers, Sequences, FiniteSets, TLC

(***************************************************************************)
(* Bounds of the model.                                                    *)
(***************************************************************************)
MaxInputs == 2      \* input files given to one merger run
MaxNodes == 3       \* nodes over all input files of one merger run
MaxPackages == 2    \* entries of the Packages list of a packages file
MaxMarkers == 1     \* workspace marker files present among the probed candidates
MaxProbed == 2      \* marker files present when the workspace root alone is resolved
MaxUnits == 3       \* units (targets) of a build graph
MaxPkgLen == 2      \* characters of a package path
MaxNameLen == 3     \* characters of a target name
MaxTargets == 2     \* targets whose output files are declared in one build
MaxLoaded == 2      \* packages returned by one packages.Load
MaxRuns == 2        \* concurrent runs of vta_analyzer_simple
MaxEdges == 2       \* call sites of one refined call graph

VARIABLES
    tool,           \* which program the process runs: "merge", "vta", "none"
    pc,             \* position of the process in its code
    hasArgs,        \* whether the command line carries the required arguments
    run,            \* merger: 1 = first run, 2 = run over the output of run 1
    outputFile,     \* merger/builder: os.Args output path
    inputFiles,     \* merger: os.Args[2:]
    idx,            \* merger: index of the next input file of the range loop
    seenLabels,     \* merger: map[string]bool of labels already retained
    mergedNodes,    \* merger: []json.RawMessage accumulated so far
    stderr,         \* diagnostics written to standard error
    exitCode,       \* process exit status, -1 while running
    fs,             \* file system: path -> file
    wrote,          \* whether WriteFile of the output path returned nil
    packagesFile,   \* builder: the packages file named by os.Args[1]
    wsMarkers,      \* builder: the <<candidate, marker file>> pairs that exist
    cwdOk,          \* builder: whether os.Getwd succeeds (filepath.Abs needs it)
    targetID,       \* builder: main's targetID
    targetName,     \* builder: main's targetName
    targetPkgPath,  \* builder: main's targetPkgPath
    workspaceRoot,  \* builder: main's workspaceRoot
    result,         \* builder: the CallGraphResult handed to writeResult
    deps,           \* aspects: unit -> ctx.rule.attr.deps, the build graph
    evaluated,      \* aspects: the units whose aspect has run
    preMerge,       \* aspects: unit -> its pre_merge_..._resolved_dependencies.json
    merged,         \* aspects: unit -> its endor_..._resolved_dependencies.json
    canonical,      \* aspects: whether str(ctx.label) prints "@@" for a repository
    declared,       \* aspects: the output files declared, one record per target
    ctx,            \* aspects: the rule context the provider is computed from
    provider,       \* aspects: the EndorGoDependencyInfo of the unit, once computed
    loadedPkgs,     \* analysis: pkgs, the packages returned by packages.Load
    goFiles,        \* analysis: the files found by findGoFiles
    loads,          \* analysis: the calls of packages.Load made so far
    validPackages,  \* analysis: the packages kept for SSA construction
    stdout,         \* analysis: what the process has written to standard output
    graph,          \* analysis: vtaCG after DeleteSyntheticNodes
    visited,        \* analysis: the nodes the range loop has been through
    callGraph,      \* analysis: map[string][]string
    functions,      \* analysis: map[string]FunctionInfo
    callEdges,      \* analysis: []CallEdge
    totalEdges,     \* analysis: totalEdges
    tmpFile,        \* concurrent runs: the script file in os.TempDir()
    runs            \* concurrent runs: control point and result of each run

procVars == <<tool, pc, hasArgs, outputFile, stderr, exitCode, fs, wrote>>

mergeVars == <<run, inputFiles, idx, seenLabels, mergedNodes>>

vtaVars == <<packagesFile, wsMarkers, cwdOk, targetID, targetName, targetPkgPath,
             workspaceRoot, result>>

aspectVars == <<deps, evaluated, preMerge, merged, canonical, declared, ctx, provider>>

loadVars == <<loadedPkgs, goFiles, loads, validPackages, stdout>>

graphVars == <<graph, visited, callGraph, functions, callEdges, totalEdges>>

raceVars == <<tmpFile, runs>>

analysisVars == <<loadVars, graphVars, raceVars>>

vars == <<procVars, mergeVars, vtaVars, aspectVars, analysisVars>>

(***************************************************************************)
(* JSON nodes.  A node's content is what a JSON decoder sees; a raw        *)
(* message is the node's text, which also has a layout: spaced = TRUE when *)
(* the text holds insignificant white space (as in the aspects' pre-merge  *)
(* files, "original_label": "...") and FALSE when it is compact.           *)
(***************************************************************************)
Labels == {"a", "b"}
Bodies == {1, 2}

LabelledContents ==
    [form : {"object"}, labelType : {"string"}, label : Labels, body : Bodies]

UnlabelledContents ==
    { [form |-> "object", labelType |-> "absent", label |-> "", body |-> 1],
      [form |-> "object", labelType |-> "string", label |-> "", body |-> 1],
      [form |-> "object", labelType |-> "number", label |-> "", body |-> 1],
      [form |-> "nonobject", labelType |-> "absent", label |-> "", body |-> 1] }

NodeContents == LabelledContents \cup UnlabelledContents

Raw(content, spaced) == [content |-> content, spaced |-> spaced]

(***************************************************************************)
(* Files.  kind: "missing" (no such file), "unreadable" (Stat succeeds,    *)
(* ReadFile fails), "malformed" (read, but json.Unmarshal into JSONData    *)
(* fails; nodes is what the text would have held), "json" (decodes into    *)
(* JSONData; isNull = the "nodes" member is null or absent).               *)
(***************************************************************************)
File(kind, isNull, nodes) == [kind |-> kind, isNull |-> isNull, nodes |-> nodes]

MissingFile == File("missing", TRUE, <<>>)
EmptyFile == File("malformed", TRUE, <<>>)     \* zero bytes: not valid JSON

InPath(k) == <<"in", k>>
OutPath(r) == <<"out", r>>

\* Mutant of ParseNode: the label's emptiness is never looked at, an empty
\* string counts as a label like any other.
ParseNode_EmptyIsLabel(nodeData) ==
    LET c == nodeData.content
    IN  [ err |-> c.form # "object",
          hasLabel |-> c.form = "object" /\ c.labelType = "string",
          originalLabel |-> IF c.form = "object" /\ c.labelType = "string"
                            THEN (IF c.label = "" THEN "<empty>" ELSE c.label)
                            ELSE "" ]

\* json.Unmarshal(nodeData, &node) into map[string]interface{} followed by
\* node["original_label"].(string)
ParseNode(nodeData) ==
    LET c == nodeData.content
    IN  [ err |-> c.form # "object",
          hasLabel |-> c.form = "object" /\ c.labelType = "string",
          originalLabel |-> IF c.form = "object" /\ c.labelType = "string"
                            THEN c.label ELSE "" ]

\* Mutant of ProcessNode: seenLabels[originalLabel] = true is missing.
ProcessNode_NoMark(st, nodeData) ==
    LET p == ParseNode(nodeData)
        keep == [st EXCEPT !.mergedNodes = Append(@, nodeData)]
    IN  IF p.err THEN keep
        ELSE IF p.hasLabel /\ p.originalLabel # ""
             THEN IF p.originalLabel \notin st.seenLabels THEN keep ELSE st
             ELSE keep

\* Mutant of ProcessNode: the continue after the parse-error append is
\* missing, so the node falls through to the no-label branch as well.
ProcessNode_NoContinue(st, nodeData) ==
    LET p == ParseNode(nodeData)
        keep == [st EXCEPT !.mergedNodes = Append(@, nodeData)]
        twice == [st EXCEPT !.mergedNodes = Append(Append(@, nodeData), nodeData)]
    IN  IF p.err THEN twice
        ELSE IF p.hasLabel /\ p.originalLabel # ""
             THEN IF p.originalLabel \notin st.seenLabels
                  THEN [seenLabels |-> st.seenLabels \cup {p.originalLabel},
                        mergedNodes |-> Append(st.mergedNodes, nodeData)]
                  ELSE st
             ELSE keep

\* Mutant of ProcessNode: the test of seenLabels is inverted.
ProcessNode_Inverted(st, nodeData) ==
    LET p == ParseNode(nodeData)
        keep == [st EXCEPT !.mergedNodes = Append(@, nodeData)]
    IN  IF p.err THEN keep
        ELSE IF p.hasLabel /\ p.originalLabel # ""
             THEN IF p.originalLabel \in st.seenLabels
                  THEN [seenLabels |-> st.seenLabels \cup {p.originalLabel},
                        mergedNodes |-> Append(st.mergedNodes, nodeData)]
                  ELSE st
             ELSE keep

\* Mutant of ProcessNode: a node with a new label is put in front of
\* mergedNodes instead of behind it.
ProcessNode_Prepend(st, nodeData) ==
    LET p == ParseNode(nodeData)
        keep == [st EXCEPT !.mergedNodes = Append(@, nodeData)]
    IN  IF p.err THEN keep
        ELSE IF p.hasLabel /\ p.originalLabel # ""
             THEN IF p.originalLabel \notin st.seenLabels
                  THEN [seenLabels |-> st.seenLabels \cup {p.originalLabel},
                        mergedNodes |-> <<nodeData>> \o st.mergedNodes]
                  ELSE st
             ELSE keep

\* One iteration of the inner loop of mergeJSONFiles over st = (seenLabels,
\* mergedNodes).
ProcessNode(st, nodeData) ==
    LET p == ParseNode(nodeData)
        keep == [st EXCEPT !.mergedNodes = Append(@, nodeData)]
    IN  IF p.err THEN keep
        ELSE IF p.hasLabel /\ p.originalLabel # ""
             THEN IF p.originalLabel \notin st.seenLabels
                  THEN [seenLabels |-> st.seenLabels \cup {p.originalLabel},
                        mergedNodes |-> Append(st.mergedNodes, nodeData)]
                  ELSE st
             ELSE keep

RECURSIVE ProcessNodes(_, _)
ProcessNodes(st, nodes) ==
    IF nodes = <<>> THEN st
    ELSE ProcessNodes(ProcessNode(st, Head(nodes)), Tail(nodes))

\* Mutant of ReadInput: the continue after a failed json.Unmarshal is missing,
\* so the nodes decoded from the unparseable file are processed.
ReadInput_NoSkip(file) ==
    CASE file.kind = "missing"    -> [warning |-> "", nodes |-> <<>>]
      [] file.kind = "unreadable" -> [warning |-> "read", nodes |-> <<>>]
      [] file.kind = "malformed"  -> [warning |-> "parse", nodes |-> file.nodes]
      [] OTHER -> [warning |-> "", nodes |-> IF file.isNull THEN <<>> ELSE file.nodes]

\* os.Stat, ioutil.ReadFile and json.Unmarshal(data, &jsonData) of one input:
\* the warning printed ("" for none) and the nodes handed to the inner loop.
ReadInput(file) ==
    CASE file.kind = "missing"    -> [warning |-> "", nodes |-> <<>>]
      [] file.kind = "unreadable" -> [warning |-> "read", nodes |-> <<>>]
      [] file.kind = "malformed"  -> [warning |-> "parse", nodes |-> <<>>]
      [] OTHER -> [warning |-> "", nodes |-> IF file.isNull THEN <<>> ELSE file.nodes]

\* One iteration of the outer loop of mergeJSONFiles.
ProcessFile(st, file) == ProcessNodes(st, ReadInput(file).nodes)

\* encoding/json re-emits a json.RawMessage through compact(): insignificant
\* white space is removed, the content is kept.
Compact(nodeData) == [nodeData EXCEPT !.spaced = FALSE]

\* json.Marshal(JSONData{Nodes: mergedNodes}): a nil slice is emitted as null.
Marshal(nodes) ==
    File("json", nodes = <<>>, [k \in DOMAIN nodes |-> Compact(nodes[k])])

(***************************************************************************)
(* merge_json_deps: main and mergeJSONFiles, one action per step.          *)
(***************************************************************************)
Diag(level, what, path) == [level |-> level, what |-> what, path |-> path]

\* main: argument check, then the start of mergeJSONFiles.
MergeMain ==
    /\ UNCHANGED <<vtaVars, aspectVars, analysisVars>>
    /\ tool = "merge" /\ pc = "m_args"
    /\ IF ~hasArgs
       THEN /\ stderr' = Append(stderr, Diag("usage", "args", <<>>))
            /\ exitCode' = 1
            /\ pc' = "exit"
            /\ UNCHANGED <<idx, seenLabels, mergedNodes>>
       ELSE /\ idx' = 1
            /\ seenLabels' = {}
            /\ mergedNodes' = <<>>
            /\ pc' = "m_loop"
            /\ UNCHANGED <<stderr, exitCode>>
    /\ UNCHANGED <<tool, hasArgs, run, outputFile, inputFiles, fs, wrote>>

\* Mutant of MergeInput: a read or parse failure is returned as an error
\* instead of being skipped.
MergeInput_Fatal ==
    /\ UNCHANGED <<vtaVars, aspectVars, analysisVars>>
    /\ tool = "merge" /\ pc = "m_loop" /\ idx <= Len(inputFiles)
    /\ LET path == inputFiles[idx]
           file == fs[path]
           st == ProcessFile([seenLabels |-> seenLabels, mergedNodes |-> mergedNodes],
                             file)
           w == ReadInput(file).warning
       IN  /\ seenLabels' = st.seenLabels
           /\ mergedNodes' = st.mergedNodes
           /\ IF w = ""
              THEN UNCHANGED <<stderr, exitCode, pc>>
              ELSE /\ stderr' = Append(stderr, Diag("error", w, path))
                   /\ exitCode' = 1
                   /\ pc' = "exit"
    /\ idx' = idx + 1
    /\ UNCHANGED <<tool, hasArgs, run, outputFile, inputFiles, fs, wrote>>

\* for _, inputFile := range inputFiles { ... }: one input file.
MergeInput ==
    /\ UNCHANGED <<vtaVars, aspectVars, analysisVars>>
    /\ tool = "merge" /\ pc = "m_loop" /\ idx <= Len(inputFiles)
    /\ LET path == inputFiles[idx]
           file == fs[path]
           st == ProcessFile([seenLabels |-> seenLabels, mergedNodes |-> mergedNodes],
                             file)
           w == ReadInput(file).warning
       IN  /\ seenLabels' = st.seenLabels
           /\ mergedNodes' = st.mergedNodes
           /\ stderr' = IF w = "" THEN stderr
                        ELSE Append(stderr, Diag("warning", w, path))
    /\ idx' = idx + 1
    /\ UNCHANGED <<tool, pc, hasArgs, run, outputFile, inputFiles, exitCode, fs, wrote>>

\* os.MkdirAll(filepath.Dir(outputFile), 0755); on error mergeJSONFiles
\* returns it and main prints it and exits 1.
MergeMkdirAll ==
    /\ UNCHANGED <<vtaVars, aspectVars, analysisVars>>
    /\ tool = "merge" /\ pc = "m_loop" /\ idx > Len(inputFiles)
    /\ \E ok \in BOOLEAN :
          IF ok
          THEN pc' = "m_open" /\ UNCHANGED <<stderr, exitCode>>
          ELSE /\ stderr' = Append(stderr, Diag("error", "mkdir", outputFile))
               /\ exitCode' = 1
               /\ pc' = "exit"
    /\ UNCHANGED <<tool, hasArgs, run, outputFile, inputFiles, idx, seenLabels,
                   mergedNodes, fs, wrote>>

\* ioutil.WriteFile, first half: OpenFile(name, O_WRONLY|O_CREATE|O_TRUNC).
MergeOpen ==
    /\ UNCHANGED <<vtaVars, aspectVars, analysisVars>>
    /\ tool = "merge" /\ pc = "m_open"
    /\ \E ok \in BOOLEAN :
          IF ok
          THEN /\ fs' = [fs EXCEPT ![outputFile] = EmptyFile]
               /\ pc' = "m_write"
               /\ UNCHANGED <<stderr, exitCode>>
          ELSE /\ stderr' = Append(stderr, Diag("error", "write", outputFile))
               /\ exitCode' = 1
               /\ pc' = "exit"
               /\ UNCHANGED fs
    /\ UNCHANGED <<tool, hasArgs, run, outputFile, inputFiles, idx, seenLabels,
                   mergedNodes, wrote>>

\* ioutil.WriteFile, second half: f.Write(data) and f.Close(); a failed write
\* leaves the bytes written so far, a prefix of the data.
MergeWrite ==
    /\ UNCHANGED <<vtaVars, aspectVars, analysisVars>>
    /\ tool = "merge" /\ pc = "m_write"
    /\ \/ /\ fs' = [fs EXCEPT ![outputFile] = Marshal(mergedNodes)]
          /\ wrote' = TRUE
          /\ exitCode' = 0
          /\ UNCHANGED stderr
       \/ \E n \in 0..Len(mergedNodes) :
             /\ fs' = [fs EXCEPT ![outputFile] =
                          File("malformed", n = 0,
                               SubSeq(Marshal(mergedNodes).nodes, 1, n))]
             /\ stderr' = Append(stderr, Diag("error", "write", outputFile))
             /\ exitCode' = 1
             /\ UNCHANGED wrote
    /\ pc' = "exit"
    /\ UNCHANGED <<tool, hasArgs, run, outputFile, inputFiles, idx, seenLabels,
                   mergedNodes>>

\* The merged output of a successful run is itself merged, as its sole input,
\* into a second output file.
MergeAgain ==
    /\ UNCHANGED <<vtaVars, aspectVars, analysisVars>>
    /\ tool = "merge" /\ pc = "exit" /\ run = 1 /\ exitCode = 0
    /\ run' = 2
    /\ inputFiles' = <<OutPath(1)>>
    /\ outputFile' = OutPath(2)
    /\ pc' = "m_args"
    /\ exitCode' = -1
    /\ stderr' = <<>>
    /\ wrote' = FALSE
    /\ UNCHANGED <<tool, hasArgs, idx, seenLabels, mergedNodes, fs>>

MergeNext ==
    \/ MergeMain
    \/ MergeInput
    \/ MergeMkdirAll
    \/ MergeOpen
    \/ MergeWrite
    \/ MergeAgain

(***************************************************************************)
(* The dependency aspects (_endor_go_library_resolve_dependencies and      *)
(* _endor_go_binary_resolve_dependencies, the same code in each version):  *)
(* one fact file per unit, merged with the merged files of its deps.       *)
(***************************************************************************)
Units == 1..MaxUnits

\* str(ctx.label) of each unit; the labels of a build graph are distinct.
UnitLabels == <<"@//app:a", "@//lib:b", "@ext//:c", "@//lib:d", "@@//app:e", "@ext//pkg:f">>

UnitLabel(u) == UnitLabels[u]

RECURSIVE LabelsOfDeps(_)
\* get_go_dependency_labels(deps)
LabelsOfDeps(ds) ==
    IF ds = <<>> THEN <<>> ELSE <<UnitLabel(Head(ds))>> \o LabelsOfDeps(Tail(ds))

\* The node the aspect serializes for unit u with rule deps ds.
UnitNode(u, ds) ==
    Raw([form |-> "object", labelType |-> "string", label |-> UnitLabel(u),
         body |-> [dependencies |-> LabelsOfDeps(ds)]], TRUE)

\* ctx.actions.write(output_json, '{"nodes": [' + json_content + ']}')
PreMergeFile(u, ds) == File("json", FALSE, <<UnitNode(u, ds)>>)

RECURSIVE ProcessFiles(_, _)
ProcessFiles(st, files) ==
    IF files = <<>> THEN st
    ELSE ProcessFiles(ProcessFile(st, Head(files)), Tail(files))

\* A run of merge_json_deps over the given files that writes its output.
MergeTool(files) ==
    Marshal(ProcessFiles([seenLabels |-> {}, mergedNodes |-> <<>>], files).mergedNodes)

\* Mutant of OutputsToMerge: the children are the deps' pre-merge files
\* instead of their merged files.
OutputsToMerge_PreMergeOnly(own, ds, pre, mrg) ==
    <<own>> \o [k \in DOMAIN ds |-> pre[ds[k]]]

\* Mutant of OutputsToMerge: the unit's own file comes after the files of
\* its deps.
OutputsToMerge_OwnLast(own, ds, pre, mrg) ==
    [k \in DOMAIN ds |-> mrg[ds[k]]] \o <<own>>

\* outputs_to_merge: the unit's own file first, then for each dep in order the
\* files of its endor_sca_info output group (its one merged file).
OutputsToMerge(own, ds, pre, mrg) ==
    <<own>> \o [k \in DOMAIN ds |-> mrg[ds[k]]]

\* The aspect implementation on unit u, and the two actions it registers; the
\* orchestrator runs it once the aspect has run on every dep of u.
AspectEvaluate(u) ==
    /\ tool = "none"
    /\ u \notin evaluated
    /\ \A k \in DOMAIN deps[u] : deps[u][k] \in evaluated
    /\ LET own == PreMergeFile(u, deps[u])
       IN  /\ preMerge' = [preMerge EXCEPT ![u] = own]
           /\ merged' = [merged EXCEPT ![u] =
                            MergeTool(OutputsToMerge(own, deps[u], preMerge, merged))]
    /\ evaluated' = evaluated \cup {u}
    /\ UNCHANGED <<deps, canonical, declared, ctx, provider, procVars, mergeVars, vtaVars>>
    /\ UNCHANGED analysisVars

AspectNext == \E u \in Units : AspectEvaluate(u)

\* The units reachable from u in at most n steps along g.
RECURSIVE ReachWithin(_, _, _)
ReachWithin(g, u, n) ==
    IF n = 0 THEN {}
    ELSE LET direct == {g[u][k] : k \in DOMAIN g[u]}
         IN  direct \cup UNION {ReachWithin(g, v, n - 1) : v \in direct}

Acyclic(g) == \A u \in Units : u \notin ReachWithin(g, u, MaxUnits)

\* The deps lists of one unit: sequences of distinct other units.
DepsLists(u) ==
    { l \in UNION {[1..m -> Units \ {u}] : m \in 0..(MaxUnits - 1)} :
        \A i, j \in DOMAIN l : i # j => l[i] # l[j] }

\* The analysis variables while no analysis runs.
AnalysisIdle ==
    /\ loadedPkgs = <<>>
    /\ goFiles = <<>>
    /\ loads = <<>>
    /\ validPackages = <<>>
    /\ stdout = <<>>
    /\ graph = <<>>
    /\ visited = {}
    /\ callGraph = <<>>
    /\ functions = <<>>
    /\ callEdges = <<>>
    /\ totalEdges = 0
    /\ tmpFile = <<>>
    /\ runs = <<>>

RECURSIVE GraphsUpTo(_)
\* The assignments of a deps list to each of the units 1..n.
GraphsUpTo(n) ==
    IF n = 0 THEN {<<>>}
    ELSE {Append(g, l) : g \in GraphsUpTo(n - 1), l \in DepsLists(n)}

\* The aspects' variables while another program runs.
AspectIdle ==
    /\ deps = <<>>
    /\ evaluated = {}
    /\ preMerge = <<>>
    /\ merged = <<>>
    /\ canonical = FALSE
    /\ declared = {}
    /\ ctx = <<>>
    /\ provider = <<>>

(***************************************************************************)
(* vta_analyzer_simple: main, findWorkspaceRoot, runWorkspaceVTAAnalysis   *)
(* and writeResult.                                                        *)
(***************************************************************************)
Pkg(id, name, path) == [ID |-> id, Name |-> name, PkgPath |-> path]

\* The entries a Packages list is drawn from: two workspace packages (one
\* without PkgPath), a standard-library package and an entry without ID.
PackageUniverse ==
    { Pkg("@//app:app", "app", "example.com/app"),
      Pkg("@@//lib:lib", "lib", ""),
      Pkg("fmt", "fmt", "fmt"),
      Pkg("", "", "") }

\* strings.HasPrefix over the IDs of the universe.
HasPrefix(str, prefix) ==
    <<str, prefix>> \in {<<"@//app:app", "@//">>, <<"@@//lib:lib", "@@//">>}

\* The loop of main over response.Packages: the first package whose ID is
\* non-empty and starts with @@// or @//, else the zero values.
RECURSIVE SelectTarget(_)
SelectTarget(pkgs) ==
    IF pkgs = <<>> THEN Pkg("", "", "")
    ELSE LET pkg == Head(pkgs)
         IN  IF pkg.ID # "" /\ (HasPrefix(pkg.ID, "@@//") \/ HasPrefix(pkg.ID, "@//"))
             THEN pkg
             ELSE SelectTarget(Tail(pkgs))

Candidates ==
    << "/Users/sbiradar/code/go-aspects", "../../../../..", "../../../..",
       "../../..", "..", "." >>

Markers == {"WORKSPACE", "MODULE.bazel"}

Root(abs, path) == [abs |-> abs, path |-> path]
NoRoot == Root(FALSE, "")

\* filepath.Abs(candidate): an absolute path is cleaned, a relative one is
\* joined to os.Getwd(), which can fail.
AbsOk(candidate, getwdOk) == candidate = Candidates[1] \/ getwdOk

\* findWorkspaceRoot from candidate k on.
RECURSIVE FindRootFrom(_, _, _)
FindRootFrom(k, markers, getwdOk) ==
    IF k > Len(Candidates) THEN NoRoot
    ELSE LET c == Candidates[k]
         IN  IF <<c, "WORKSPACE">> \in markers /\ AbsOk(c, getwdOk)
             THEN Root(TRUE, c)
             ELSE IF <<c, "MODULE.bazel">> \in markers /\ AbsOk(c, getwdOk)
                  THEN Root(TRUE, c)
                  ELSE FindRootFrom(k + 1, markers, getwdOk)

\* Mutant of findWorkspaceRoot: the candidates are probed from the last one.
RECURSIVE FindRootDown(_, _, _)
FindRootDown(k, markers, getwdOk) ==
    IF k < 1 THEN NoRoot
    ELSE LET c == Candidates[k]
         IN  IF (\E m \in Markers : <<c, m>> \in markers) /\ AbsOk(c, getwdOk)
             THEN Root(TRUE, c)
             ELSE FindRootDown(k - 1, markers, getwdOk)

findWorkspaceRoot_LastFirst(markers, getwdOk) ==
    FindRootDown(Len(Candidates), markers, getwdOk)

findWorkspaceRoot(markers, getwdOk) == FindRootFrom(1, markers, getwdOk)

CallGraphResult(id, name, path, funcs, edges) ==
    [ package_id |-> id, package_name |-> name, import_path |-> path,
      total_functions |-> funcs, total_edges |-> edges, algorithm |-> "VTA" ]

NoResult == CallGraphResult("", "", "", 0, 0)

\* The result runWorkspaceVTAAnalysis returns on each of its failure paths.
EmptyResult(id, name, path) == CallGraphResult(id, name, path, 0, 0)

\* The totals the analysis subprocess can report.
AnalysisTotals == {<<0, 0>>, <<1, 1>>, <<2, 3>>}

\* main: argument check (log.Fatalf exits with status 1).
VtaMain ==
    /\ tool = "vta" /\ pc = "v_main"
    /\ IF ~hasArgs
       THEN /\ stderr' = Append(stderr, Diag("fatal", "usage", <<>>))
            /\ exitCode' = 1
            /\ pc' = "exit"
       ELSE /\ pc' = "v_read"
            /\ UNCHANGED <<stderr, exitCode>>
    /\ UNCHANGED <<tool, hasArgs, outputFile, fs, wrote>>
    /\ UNCHANGED <<aspectVars, analysisVars, mergeVars, vtaVars>>

\* main: os.ReadFile and json.Unmarshal of the packages file, selection of the
\* target package, "unknown" for an empty package path.
VtaReadPackages ==
    /\ tool = "vta" /\ pc = "v_read"
    /\ IF packagesFile.kind # "json"
       THEN /\ stderr' = Append(stderr,
                   Diag("fatal", IF packagesFile.kind = "malformed" THEN "parse" ELSE "read",
                        <<>>))
            /\ exitCode' = 1
            /\ pc' = "exit"
            /\ UNCHANGED <<targetID, targetName, targetPkgPath>>
       ELSE LET t == SelectTarget(packagesFile.pkgs)
            IN  /\ targetID' = t.ID
                /\ targetName' = t.Name
                /\ targetPkgPath' = IF t.PkgPath = "" THEN "unknown" ELSE t.PkgPath
                /\ pc' = "v_root"
                /\ UNCHANGED <<stderr, exitCode>>
    /\ UNCHANGED <<tool, hasArgs, outputFile, fs, wrote>>
    /\ UNCHANGED <<aspectVars, analysisVars, mergeVars, packagesFile, wsMarkers, cwdOk, workspaceRoot, result>>

\* main: workspaceRoot := findWorkspaceRoot(), "." when it returns "".
VtaFindWorkspaceRoot ==
    /\ tool = "vta" /\ pc = "v_root"
    /\ LET r == findWorkspaceRoot(wsMarkers, cwdOk)
       IN  workspaceRoot' = IF r = NoRoot THEN Root(FALSE, ".") ELSE r
    /\ pc' = "v_analyze"
    /\ UNCHANGED <<tool, hasArgs, outputFile, stderr, exitCode, fs, wrote>>
    /\ UNCHANGED <<aspectVars, analysisVars, mergeVars, packagesFile, wsMarkers, cwdOk, targetID, targetName,
                   targetPkgPath, result>>

\* runWorkspaceVTAAnalysis: writing the script, filepath.Abs of the packages
\* file, go run, and json.Unmarshal of its output can each fail; every
\* failure returns the empty result, success returns the parsed output.
VtaRunAnalysis ==
    /\ tool = "vta" /\ pc = "v_analyze"
    /\ \/ \E failure \in {"script", "abs", "run", "parse"} :
             /\ failure = "abs" => ~cwdOk
             /\ failure \in {"run", "parse"} => cwdOk
             /\ result' = EmptyResult(targetID, targetName, targetPkgPath)
             /\ stderr' = Append(stderr, Diag("failed", failure, <<>>))
       \/ /\ cwdOk
          /\ \E t \in AnalysisTotals :
                result' = CallGraphResult(targetID, targetName, targetPkgPath, t[1], t[2])
          /\ UNCHANGED stderr
    /\ pc' = "v_mkdir"
    /\ UNCHANGED <<tool, hasArgs, outputFile, exitCode, fs, wrote>>
    /\ UNCHANGED <<aspectVars, analysisVars, mergeVars, packagesFile, wsMarkers, cwdOk, targetID, targetName,
                   targetPkgPath, workspaceRoot>>

\* writeResult: os.MkdirAll(filepath.Dir(outputFile), 0755), log.Fatalf on error.
VtaMkdirAll ==
    /\ tool = "vta" /\ pc = "v_mkdir"
    /\ \E ok \in BOOLEAN :
          IF ok
          THEN pc' = "v_open" /\ UNCHANGED <<stderr, exitCode>>
          ELSE /\ stderr' = Append(stderr, Diag("fatal", "mkdir", outputFile))
               /\ exitCode' = 1
               /\ pc' = "exit"
    /\ UNCHANGED <<tool, hasArgs, outputFile, fs, wrote>>
    /\ UNCHANGED <<aspectVars, analysisVars, mergeVars, vtaVars>>

\* writeResult: os.WriteFile, first half: OpenFile(name, O_WRONLY|O_CREATE|O_TRUNC).
VtaOpen ==
    /\ tool = "vta" /\ pc = "v_open"
    /\ \E ok \in BOOLEAN :
          IF ok
          THEN /\ fs' = [fs EXCEPT ![outputFile] = EmptyFile]
               /\ pc' = "v_write"
               /\ UNCHANGED <<stderr, exitCode>>
          ELSE /\ stderr' = Append(stderr, Diag("fatal", "write", outputFile))
               /\ exitCode' = 1
               /\ pc' = "exit"
               /\ UNCHANGED fs
    /\ UNCHANGED <<tool, hasArgs, outputFile, wrote>>
    /\ UNCHANGED <<aspectVars, analysisVars, mergeVars, vtaVars>>

\* Mutant of VtaWrite: the error of os.WriteFile is logged, not fatal.
VtaWrite_ErrorIgnored ==
    /\ tool = "vta" /\ pc = "v_write"
    /\ \/ /\ fs' = [fs EXCEPT ![outputFile] = File("result", FALSE, <<result>>)]
          /\ wrote' = TRUE
          /\ UNCHANGED stderr
       \/ /\ fs' = [fs EXCEPT ![outputFile] = EmptyFile]
          /\ stderr' = Append(stderr, Diag("fatal", "write", outputFile))
          /\ UNCHANGED wrote
    /\ exitCode' = 0
    /\ pc' = "exit"
    /\ UNCHANGED <<tool, hasArgs, outputFile>>
    /\ UNCHANGED <<aspectVars, analysisVars, mergeVars, vtaVars>>

\* writeResult: os.WriteFile, second half: f.Write(data) and f.Close(); main
\* returns after writeResult, so the process exits with status 0.
VtaWrite ==
    /\ tool = "vta" /\ pc = "v_write"
    /\ \/ /\ fs' = [fs EXCEPT ![outputFile] = File("result", FALSE, <<result>>)]
          /\ wrote' = TRUE
          /\ exitCode' = 0
          /\ UNCHANGED stderr
       \/ /\ fs' = [fs EXCEPT ![outputFile] = EmptyFile]
          /\ stderr' = Append(stderr, Diag("fatal", "write", outputFile))
          /\ exitCode' = 1
          /\ UNCHANGED wrote
    /\ pc' = "exit"
    /\ UNCHANGED <<tool, hasArgs, outputFile>>
    /\ UNCHANGED <<aspectVars, analysisVars, mergeVars, vtaVars>>

VtaNext ==
    \/ VtaMain
    \/ VtaReadPackages
    \/ VtaFindWorkspaceRoot
    \/ VtaRunAnalysis
    \/ VtaMkdirAll
    \/ VtaOpen
    \/ VtaWrite

\* The packages files a run can be given.
PackagesFiles ==
    { [kind |-> "missing", pkgs |-> <<>>], [kind |-> "malformed", pkgs |-> <<>>] }
    \cup { [kind |-> "json", pkgs |-> l] : l \in UNION {[1..m -> PackageUniverse] : m \in 0..MaxPackages} }

\* The builder's variables while another program runs.
VtaIdle ==
    /\ packagesFile = [kind |-> "missing", pkgs |-> <<>>]
    /\ wsMarkers = {}
    /\ cwdOk = TRUE
    /\ targetID = ""
    /\ targetName = ""
    /\ targetPkgPath = ""
    /\ workspaceRoot = NoRoot
    /\ result = NoResult

\* The merger's variables while another program runs.
MergeIdle ==
    /\ run = 1
    /\ inputFiles = <<>>
    /\ idx = 0
    /\ seenLabels = {}
    /\ mergedNodes = <<>>

VtaInit ==
    /\ tool = "vta"
    /\ pc = "v_main"
    /\ hasArgs \in BOOLEAN
    /\ outputFile = OutPath(1)
    /\ stderr = <<>>
    /\ exitCode = -1
    /\ wrote = FALSE
    /\ \E prev \in {MissingFile, File("result", FALSE, <<NoResult>>)} :
          fs = (OutPath(1) :> prev)
    /\ packagesFile \in PackagesFiles
    /\ wsMarkers \in {m \in SUBSET ({Candidates[k] : k \in DOMAIN Candidates} \X Markers) :
                          Cardinality(m) <= MaxMarkers}
    /\ cwdOk \in BOOLEAN
    /\ targetID = ""
    /\ targetName = ""
    /\ targetPkgPath = ""
    /\ workspaceRoot = NoRoot
    /\ result = NoResult
    /\ MergeIdle
    /\ AspectIdle
    /\ AnalysisIdle

(***************************************************************************)
(* The command line and the files of a merger run.  The caller composes    *)
(* the argument list one input file at a time (pc = "m_args"), then the    *)
(* process starts.                                                         *)
(***************************************************************************)
SeqsUpTo(S, n) == UNION {[1..m -> S] : m \in 0..n}

Min(x, y) == IF x <= y THEN x ELSE y

\* The files an input path can name, holding at most m nodes.
FilesWith(m) ==
    {MissingFile, File("unreadable", TRUE, <<>>), File("json", TRUE, <<>>)}
    \cup { File("json", FALSE, [j \in DOMAIN s |-> Raw(s[j], sp)]) :
             sp \in BOOLEAN, s \in SeqsUpTo(NodeContents, m) }
    \cup { File("malformed", FALSE, [j \in DOMAIN s |-> Raw(s[j], FALSE)]) :
             s \in SeqsUpTo(LabelledContents, Min(m, 1)) }

RECURSIVE NodeCount(_, _)
NodeCount(f, paths) ==
    IF paths = <<>> THEN 0
    ELSE Len(f[Head(paths)].nodes) + NodeCount(f, Tail(paths))

\* What the output path holds before the run: nothing, or an earlier result.
EarlierOutputs ==
    { MissingFile,
      Marshal(<<Raw([form |-> "object", labelType |-> "string", label |-> "a",
                     body |-> 1], TRUE)>>) }

MergeInit ==
    /\ tool = "merge"
    /\ pc = "m_args"
    /\ run = 1
    /\ outputFile = OutPath(1)
    /\ inputFiles = <<>>
    /\ idx = 0
    /\ seenLabels = {}
    /\ mergedNodes = <<>>
    /\ stderr = <<>>
    /\ exitCode = -1
    /\ wrote = FALSE
    /\ hasArgs \in BOOLEAN
    /\ \E prev \in EarlierOutputs :
          fs = (OutPath(1) :> prev) @@ (OutPath(2) :> MissingFile)
    /\ VtaIdle
    /\ AspectIdle
    /\ AnalysisIdle

\* One more input file on the command line.
GiveInput ==
    /\ UNCHANGED <<vtaVars, aspectVars, analysisVars>>
    /\ tool = "merge" /\ pc = "m_args" /\ run = 1 /\ hasArgs
    /\ Len(inputFiles) < MaxInputs
    /\ \E f \in FilesWith(MaxNodes - NodeCount(fs, inputFiles)) :
          LET path == InPath(Len(inputFiles) + 1)
          IN  /\ inputFiles' = Append(inputFiles, path)
              /\ fs' = (path :> f) @@ fs
    /\ UNCHANGED <<tool, pc, hasArgs, run, outputFile, idx, seenLabels, mergedNodes,
                   stderr, exitCode, wrote>>

(***************************************************************************)
(* Package loading: main of vta_analyzer_bazel (tool = "vtab") and main of *)
(* the program that vta_analyzer_simple writes out and runs with go run    *)
(* (tool = "script"), each up to the result it emits.  The construction    *)
(* of the call graph itself is the subject of the next section; here it    *)
(* yields one of a few results.                                            *)
(***************************************************************************)
\* An entry of the Packages list with its GoFiles (their number).
LoadPkg(id, name, path, files) ==
    [ID |-> id, Name |-> name, PkgPath |-> path, GoFiles |-> files]

LoadPackageUniverse ==
    { LoadPkg("@//app:app", "app", "example.com/app", 1),
      LoadPkg("@//app:app", "app", "example.com/app", 0),
      LoadPkg("@@//lib:lib", "lib", "", 1),
      LoadPkg("fmt", "fmt", "fmt", 1) }

\* vta_analyzer_bazel, the loop of main over response.Packages: the first
\* package with a workspace ID and at least one Go file.
RECURSIVE SelectTargetWithFiles(_)
SelectTargetWithFiles(list) ==
    IF list = <<>> THEN LoadPkg("", "", "", 0)
    ELSE LET pkg == Head(list)
         IN  IF /\ pkg.ID # ""
                /\ (HasPrefix(pkg.ID, "@@//") \/ HasPrefix(pkg.ID, "@//"))
                /\ pkg.GoFiles > 0
             THEN pkg
             ELSE SelectTargetWithFiles(Tail(list))

\* A *packages.Package as the filters see it.
Loaded(types, syntax) == [Types |-> types, Syntax |-> syntax]

LoadedPackages == {Loaded(t, n) : t \in BOOLEAN, n \in 0..1}

\* What packages.Load returns: an error and no package, or packages.
LoadOutcomes ==
    {[err |-> TRUE, pkgs |-> <<>>]}
    \cup {[err |-> FALSE, pkgs |-> l] : l \in SeqsUpTo(LoadedPackages, MaxLoaded)}

\* One call of packages.Load: its patterns and what it returned.
LoadCall(patterns, outcome) ==
    [patterns |-> patterns, err |-> outcome.err, pkgs |-> outcome.pkgs]

\* The patterns the script loads: "./" + PkgPath of every workspace package
\* of the packages file, or "." when there is none.
packagePaths(list) ==
    LET ws == SelectSeq(list, LAMBDA pkg :
                  pkg.ID # "" /\ (HasPrefix(pkg.ID, "@@//") \/ HasPrefix(pkg.ID, "@//")))
    IN  IF Len(ws) = 0 THEN <<".">>
        ELSE [i \in 1..Len(ws) |-> <<"./", ws[i].PkgPath>>]

\* vta_analyzer_bazel: filterValidPackages
filterValidPackages(list) ==
    SelectSeq(list, LAMBDA pkg : pkg.Syntax > 0 \/ pkg.Types)

\* The filter of the script: pkg.Types != nil && len(pkg.Syntax) > 0
ScriptValidPackages(list) ==
    SelectSeq(list, LAMBDA pkg : pkg.Types /\ pkg.Syntax > 0)

\* The call_graph map: caller name -> list of callee names.
NoCalls == <<>>

\* CallGraphResult of vta_analyzer_bazel.
BazelResult(id, name, path, cg, funcs, edges) ==
    [ package_id |-> id, package_name |-> name, import_path |-> path,
      call_graph |-> cg, total_functions |-> funcs, total_edges |-> edges,
      algorithm |-> "VTA" ]

\* CallGraphResult of the script; fns and ce are "null" for a nil map or slice.
ScriptResult(id, name, path, cg, fns, ce, funcs, edges) ==
    [ package_id |-> id, package_name |-> name, import_path |-> path,
      call_graph |-> cg, functions |-> fns, call_edges |-> ce,
      total_functions |-> funcs, total_edges |-> edges, algorithm |-> "VTA" ]

\* The call graphs an analysis of the valid packages can end with.
AnalysisGraphs ==
    { [cg |-> NoCalls, funcs |-> 0, edges |-> 0],
      [cg |-> [k \in {"p.f"} |-> <<"p.f">>], funcs |-> 1, edges |-> 1],
      [cg |-> [k \in {"p.f"} |-> <<"p.g", "p.g">>], funcs |-> 1, edges |-> 2] }

\* main: argument check.
BzlMain ==
    /\ tool = "vtab" /\ pc = "b_main"
    /\ IF ~hasArgs
       THEN /\ stderr' = Append(stderr, Diag("fatal", "usage", <<>>))
            /\ exitCode' = 1
            /\ pc' = "exit"
       ELSE /\ pc' = "b_read"
            /\ UNCHANGED <<stderr, exitCode>>
    /\ UNCHANGED <<tool, hasArgs, outputFile, fs, wrote>>
    /\ UNCHANGED <<mergeVars, vtaVars, aspectVars, analysisVars>>

\* main: os.ReadFile and json.Unmarshal of the packages file, selection of
\* the target package, "./..." for an empty package path.
BzlReadPackages ==
    /\ tool = "vtab" /\ pc = "b_read"
    /\ IF packagesFile.kind # "json"
       THEN /\ stderr' = Append(stderr,
                   Diag("fatal", IF packagesFile.kind = "malformed" THEN "parse" ELSE "read",
                        <<>>))
            /\ exitCode' = 1
            /\ pc' = "exit"
            /\ UNCHANGED <<targetID, targetName, targetPkgPath>>
       ELSE LET t == SelectTargetWithFiles(packagesFile.pkgs)
            IN  /\ targetID' = t.ID
                /\ targetName' = t.Name
                /\ targetPkgPath' = IF t.PkgPath = "" THEN "./..." ELSE t.PkgPath
                /\ pc' = "b_load"
                /\ UNCHANGED <<stderr, exitCode>>
    /\ UNCHANGED <<tool, hasArgs, outputFile, fs, wrote>>
    /\ UNCHANGED <<mergeVars, aspectVars, analysisVars>>
    /\ UNCHANGED <<packagesFile, wsMarkers, cwdOk, workspaceRoot, result>>

\* main: packages.Load(cfg, "."); an error or an empty list leads to the
\* fallback, anything else to the filter.
BzlLoad ==
    /\ tool = "vtab" /\ pc = "b_load"
    /\ \E first \in LoadOutcomes :
          /\ loadedPkgs' = first.pkgs
          /\ loads' = <<LoadCall(".", first)>>
          /\ pc' = IF first.err \/ Len(first.pkgs) = 0 THEN "b_files" ELSE "b_filter"
    /\ UNCHANGED <<tool, hasArgs, outputFile, stderr, exitCode, fs, wrote>>
    /\ UNCHANGED <<mergeVars, vtaVars, aspectVars, raceVars, graphVars, goFiles, validPackages, stdout>>

\* Mutant of BzlLoadFiles: when the fallback loads nothing, the working
\* directory is loaded again.
BzlLoadFiles_Reload ==
    /\ tool = "vtab" /\ pc = "b_files"
    /\ \/ /\ goFiles' = <<>>
          /\ UNCHANGED <<loadedPkgs, loads>>
          /\ pc' = "b_filter"
       \/ \E second \in LoadOutcomes :
             /\ goFiles' = <<"main.go">>
             /\ loadedPkgs' = second.pkgs
             /\ loads' = Append(loads, LoadCall("file=", second))
             /\ pc' = IF Len(second.pkgs) = 0 /\ Len(loads) < 2 THEN "b_load" ELSE "b_filter"
    /\ UNCHANGED <<tool, hasArgs, outputFile, stderr, exitCode, fs, wrote>>
    /\ UNCHANGED <<mergeVars, vtaVars, aspectVars, raceVars, graphVars, validPackages, stdout>>

\* main, the fallback: findGoFiles(".") and, when it finds files,
\* packages.Load(cfg, "file=..."...), whose outcome replaces the first.
BzlLoadFiles ==
    /\ tool = "vtab" /\ pc = "b_files"
    /\ \/ /\ goFiles' = <<>>          \* findGoFiles fails or finds nothing
          /\ UNCHANGED <<loadedPkgs, loads>>
       \/ \E second \in LoadOutcomes :
             /\ goFiles' = <<"main.go">>
             /\ loadedPkgs' = second.pkgs
             /\ loads' = Append(loads, LoadCall("file=", second))
    /\ pc' = "b_filter"
    /\ UNCHANGED <<tool, hasArgs, outputFile, stderr, exitCode, fs, wrote>>
    /\ UNCHANGED <<mergeVars, vtaVars, aspectVars, raceVars, graphVars, validPackages, stdout>>

\* Mutant of BzlAnalyze: the test of len(validPackages) is missing.
BzlAnalyze_NoValidCheck ==
    /\ tool = "vtab" /\ pc = "b_filter"
    /\ LET valid == filterValidPackages(loadedPkgs)
       IN  /\ validPackages' = IF Len(loadedPkgs) = 0 THEN <<>> ELSE valid
           /\ IF Len(loadedPkgs) = 0
              THEN result' = BazelResult(targetID, targetName, targetPkgPath, NoCalls, 0, 0)
              ELSE \E g \in AnalysisGraphs :
                      result' = BazelResult(targetID, targetName, targetPkgPath,
                                            g.cg, g.funcs, g.edges)
    /\ pc' = "b_write"
    /\ UNCHANGED <<tool, hasArgs, outputFile, stderr, exitCode, fs, wrote>>
    /\ UNCHANGED <<mergeVars, aspectVars, raceVars, graphVars, loadedPkgs, goFiles, loads, stdout>>
    /\ UNCHANGED <<packagesFile, wsMarkers, cwdOk, targetID, targetName, targetPkgPath,
                   workspaceRoot>>

\* main: the empty result when no package was loaded or none is valid, else
\* SSA construction and the call graph.
BzlAnalyze ==
    /\ tool = "vtab" /\ pc = "b_filter"
    /\ LET valid == filterValidPackages(loadedPkgs)
       IN  /\ validPackages' = IF Len(loadedPkgs) = 0 THEN <<>> ELSE valid
           /\ IF Len(loadedPkgs) = 0 \/ Len(valid) = 0
              THEN result' = BazelResult(targetID, targetName, targetPkgPath, NoCalls, 0, 0)
              ELSE \E g \in AnalysisGraphs :
                      result' = BazelResult(targetID, targetName, targetPkgPath,
                                            g.cg, g.funcs, g.edges)
    /\ pc' = "b_write"
    /\ UNCHANGED <<tool, hasArgs, outputFile, stderr, exitCode, fs, wrote>>
    /\ UNCHANGED <<mergeVars, aspectVars, raceVars, graphVars, loadedPkgs, goFiles, loads, stdout>>
    /\ UNCHANGED <<packagesFile, wsMarkers, cwdOk, targetID, targetName, targetPkgPath,
                   workspaceRoot>>

\* writeResult of vta_analyzer_bazel: MkdirAll, MarshalIndent, WriteFile,
\* log.Fatalf on an error; main returns after it.
BzlWriteResult ==
    /\ tool = "vtab" /\ pc = "b_write"
    /\ \/ /\ stderr' = Append(stderr, Diag("fatal", "mkdir", outputFile))
          /\ exitCode' = 1
          /\ UNCHANGED <<fs, wrote>>
       \/ /\ \E left \in {fs[outputFile], EmptyFile} :
                fs' = [fs EXCEPT ![outputFile] = left]
          /\ stderr' = Append(stderr, Diag("fatal", "write", outputFile))
          /\ exitCode' = 1
          /\ UNCHANGED wrote
       \/ /\ fs' = [fs EXCEPT ![outputFile] = File("result", FALSE, <<result>>)]
          /\ wrote' = TRUE
          /\ exitCode' = 0
          /\ UNCHANGED stderr
    /\ pc' = "exit"
    /\ UNCHANGED <<tool, hasArgs, outputFile>>
    /\ UNCHANGED <<mergeVars, vtaVars, aspectVars, analysisVars>>

\* The script's main: os.ReadFile and json.Unmarshal of os.Args[1], exit
\* status 1 on an error.
ScriptReadPackages ==
    /\ tool = "script" /\ pc = "s_read"
    /\ \E ok \in BOOLEAN :
          IF ok
          THEN pc' = "s_load" /\ UNCHANGED <<stderr, exitCode>>
          ELSE /\ stderr' = Append(stderr, Diag("failed", "read", <<>>))
               /\ exitCode' = 1
               /\ pc' = "exit"
    /\ UNCHANGED <<tool, hasArgs, outputFile, fs, wrote>>
    /\ UNCHANGED <<mergeVars, vtaVars, aspectVars, analysisVars>>

\* The script's main: packages.Load of the workspace packages (or "."), exit
\* status 1 on an error.
ScriptLoad ==
    /\ tool = "script" /\ pc = "s_load"
    /\ \E o \in LoadOutcomes :
          /\ loads' = <<LoadCall(packagePaths(packagesFile.pkgs), o)>>
          /\ IF o.err
             THEN /\ stderr' = Append(stderr, Diag("failed", "load", <<>>))
                  /\ exitCode' = 1
                  /\ pc' = "exit"
                  /\ UNCHANGED loadedPkgs
             ELSE /\ loadedPkgs' = o.pkgs
                  /\ pc' = "s_filter"
                  /\ UNCHANGED <<stderr, exitCode>>
    /\ UNCHANGED <<tool, hasArgs, outputFile, fs, wrote>>
    /\ UNCHANGED <<mergeVars, vtaVars, aspectVars, raceVars, graphVars, goFiles, validPackages, stdout>>

\* The script's main: the empty result when no package is valid, else SSA
\* construction and the call graph; the result is encoded to standard output.
ScriptAnalyze ==
    /\ tool = "script" /\ pc = "s_filter"
    /\ LET valid == ScriptValidPackages(loadedPkgs)
       IN  /\ validPackages' = valid
           /\ IF Len(valid) = 0
              THEN stdout' = <<ScriptResult(targetID, targetName, targetPkgPath,
                                            NoCalls, "null", "null", 0, 0)>>
              ELSE \E g \in AnalysisGraphs :
                      stdout' = <<ScriptResult(targetID, targetName, targetPkgPath,
                                               g.cg, "functions", "call_edges",
                                               g.funcs, g.edges)>>
    /\ exitCode' = 0
    /\ pc' = "exit"
    /\ UNCHANGED <<tool, hasArgs, outputFile, stderr, fs, wrote>>
    /\ UNCHANGED <<mergeVars, vtaVars, aspectVars, raceVars, graphVars, loadedPkgs, goFiles, loads>>

LoadNext ==
    \/ BzlMain
    \/ BzlReadPackages
    \/ BzlLoad
    \/ BzlLoadFiles
    \/ BzlAnalyze
    \/ BzlWriteResult
    \/ ScriptReadPackages
    \/ ScriptLoad
    \/ ScriptAnalyze

\* The packages files of the analyzers.
LoadPackagesFiles ==
    { [kind |-> "missing", pkgs |-> <<>>], [kind |-> "malformed", pkgs |-> <<>>] }
    \cup { [kind |-> "json", pkgs |-> l] : l \in SeqsUpTo(LoadPackageUniverse, MaxPackages) }

\* vta_analyzer_bazel starts.
BzlInit ==
    /\ tool = "vtab"
    /\ pc = "b_main"
    /\ hasArgs \in BOOLEAN
    /\ packagesFile \in LoadPackagesFiles
    /\ targetID = ""
    /\ targetName = ""
    /\ targetPkgPath = ""

\* The script starts: vta_analyzer_simple has read the packages file, chosen
\* its target and put the target's ID, name and path into the script's text.
ScriptInit ==
    /\ tool = "script"
    /\ pc = "s_read"
    /\ hasArgs = TRUE
    /\ packagesFile \in {f \in LoadPackagesFiles : f.kind = "json"}
    /\ LET t == SelectTarget(packagesFile.pkgs)
       IN  /\ targetID = t.ID
           /\ targetName = t.Name
           /\ targetPkgPath = IF t.PkgPath = "" THEN "unknown" ELSE t.PkgPath

LoadInit ==
    /\ BzlInit \/ ScriptInit
    /\ outputFile = OutPath(1)
    /\ stderr = <<>>
    /\ exitCode = -1
    /\ wrote = FALSE
    /\ fs = (OutPath(1) :> MissingFile)
    /\ wsMarkers = {}
    /\ cwdOk = TRUE
    /\ workspaceRoot = NoRoot
    /\ result = NoResult
    /\ MergeIdle
    /\ AspectIdle
    /\ AnalysisIdle

SpecLoad == LoadInit /\ [][LoadNext]_vars

\* No process of the command-line tools runs.
ToolsIdle ==
    /\ tool = "none"
    /\ pc = "idle"
    /\ hasArgs = FALSE
    /\ outputFile = OutPath(1)
    /\ stderr = <<>>
    /\ exitCode = -1
    /\ wrote = FALSE
    /\ fs = <<>>

AspectInit ==
    /\ ToolsIdle
    /\ MergeIdle
    /\ VtaIdle
    /\ AnalysisIdle
    /\ deps \in {g \in GraphsUpTo(MaxUnits) : Acyclic(g)}
    /\ evaluated = {}
    /\ preMerge = [u \in Units |-> MissingFile]
    /\ merged = [u \in Units |-> MissingFile]
    /\ canonical = FALSE
    /\ declared = {}
    /\ ctx = <<>>
    /\ provider = <<>>

SpecAspect == AspectInit /\ [][AspectNext]_vars

(***************************************************************************)
(* Output file naming.  A string is a sequence of one-character strings.   *)
(***************************************************************************)
RECURSIVE Replace(_, _, _)
\* Starlark's s.replace(old, new) for a non-empty old: the non-overlapping
\* occurrences of old, found from the left, become new.
Replace(s, old, new) ==
    IF Len(s) < Len(old) THEN s
    ELSE IF SubSeq(s, 1, Len(old)) = old
         THEN new \o Replace(SubSeq(s, Len(old) + 1, Len(s)), old, new)
         ELSE <<Head(s)>> \o Replace(Tail(s), old, new)

compute_package_version_name(target) ==
    LET p1 == Replace(target, <<"@", "/", "/">>, <<"_">>)
        p2 == Replace(p1, <<"@">>, <<>>)
        p3 == Replace(p2, <<"/", "/", ":">>, <<"_">>)
        p4 == Replace(p3, <<"/">>, <<"_">>)
        p5 == Replace(p4, <<":">>, <<"_">>)
    IN  IF p5 # <<>> /\ Head(p5) = "_" THEN Tail(p5) ELSE p5

\* Characters of package paths and target names, and the paths and names
\* made of them: segments separated by single slashes.
NameChars == {"a", "_", "/"}

Segmented(s) ==
    /\ s # <<>> => Head(s) # "/" /\ s[Len(s)] # "/"
    /\ \A k \in 1..(Len(s) - 1) : ~(s[k] = "/" /\ s[k + 1] = "/")

PackagePaths == {s \in SeqsUpTo(NameChars, MaxPkgLen) : Segmented(s)}

TargetNames == {s \in SeqsUpTo(NameChars, MaxNameLen) : s # <<>> /\ Segmented(s)}

\* The main repository and one external repository.
Repositories == {<<>>, <<"r">>}

\* The targets of a build: ctx.label as repository, package and name.
Targets == [repo : Repositories, package : PackagePaths, name : TargetNames]

\* str(ctx.label)
LabelStr(t, canon) ==
    (IF canon THEN <<"@", "@">> ELSE <<"@">>) \o t.repo \o <<"/", "/">>
        \o t.package \o <<":">> \o t.name

\* ctx.actions.declare_file(filename): a file of that name in the directory
\* of the target's package.
DeclareFile(t, prefix, name) ==
    [repo |-> t.repo, package |-> t.package, file |-> <<prefix>> \o name]

\* The files one target's aspects declare.
DeclaredOutputs(t, canon) ==
    LET name == compute_package_version_name(LabelStr(t, canon))
    IN  [target |-> t,
         label |-> LabelStr(t, canon),
         name |-> name,
         files |-> {DeclareFile(t, "pre_merge_", name),
                    DeclareFile(t, "endor_", name),
                    DeclareFile(t, "callgraph_", name)}]

\* The aspects reach target t and declare its output files.
AspectDeclare(t) ==
    /\ tool = "none"
    /\ Cardinality(declared) < MaxTargets
    /\ \A d \in declared : d.target # t
    /\ declared' = declared \cup {DeclaredOutputs(t, canonical)}
    /\ UNCHANGED <<deps, evaluated, preMerge, merged, canonical, ctx, provider>>
    /\ UNCHANGED <<procVars, mergeVars, vtaVars>>
    /\ UNCHANGED analysisVars

NameNext == \E t \in Targets : AspectDeclare(t)

NameInit ==
    /\ ToolsIdle
    /\ MergeIdle
    /\ VtaIdle
    /\ AnalysisIdle
    /\ deps = <<>>
    /\ evaluated = {}
    /\ preMerge = <<>>
    /\ merged = <<>>
    /\ canonical \in BOOLEAN
    /\ declared = {}
    /\ ctx = <<>>
    /\ provider = <<>>

SpecName == NameInit /\ [][NameNext]_vars

(***************************************************************************)
(* Name, version and import path of a unit (utils.bzl).  A string is a     *)
(* sequence of tokens: the characters the code looks at ("@", "/", ":",    *)
(* "_", ".") and words without any of them.                                *)
(***************************************************************************)
\* An attribute of the rule or of the aspect: hasattr and its value.
Attr(has, value) == [has |-> has, value |-> value]
NoAttr == Attr(FALSE, <<>>)

\* hasattr(attrs, name) and attrs.name
Truthy(a) == a.has /\ a.value # <<>>

StartsWith(s, prefix) ==
    Len(s) >= Len(prefix) /\ SubSeq(s, 1, Len(prefix)) = prefix

RECURSIVE BeforeFirst(_, _)
\* s.split(sep)[0]
BeforeFirst(s, sep) ==
    IF Len(s) < Len(sep) THEN s
    ELSE IF SubSeq(s, 1, Len(sep)) = sep THEN <<>>
         ELSE <<Head(s)>> \o BeforeFirst(Tail(s), sep)

RECURSIVE AfterLast(_, _)
\* s.split(sep)[-1] for a one-token sep
AfterLast(s, sep) ==
    IF s = <<>> THEN <<>>
    ELSE IF s[Len(s)] = sep THEN <<>>
         ELSE AfterLast(SubSeq(s, 1, Len(s) - 1), sep) \o <<s[Len(s)]>>

\* Mutant of get_go_version_from_query: an oracle that answers with the empty
\* string.
get_go_version_from_query_Empty(repo_name) == <<>>

\* get_go_version_from_query(repo_name): the fallback defined in utils.bzl.
get_go_version_from_query(repo_name) == <<"external">>

Details(name, version, import_path) ==
    [name |-> name, version |-> version, import_path |-> import_path]

\* The scan of ["version", "tag", "ref", "_version"]: the first attribute the
\* rule has whose value is non-empty, else NoAttr.
RECURSIVE ScanVersionAttrs(_)
ScanVersionAttrs(attrs) ==
    IF attrs = <<>> THEN NoAttr
    ELSE IF Head(attrs).has /\ Head(attrs).value # <<>>
         THEN Head(attrs)
         ELSE ScanVersionAttrs(Tail(attrs))

\* The name derived from the repository name.
RepoToName(repo_name) ==
    IF StartsWith(repo_name, <<"com", "_", "github", "_">>)
    THEN Replace(Replace(repo_name, <<"_">>, <<"/">>),
                 <<"com", "/", "github", "/">>, <<"github", ".", "com", "/">>)
    ELSE IF StartsWith(repo_name, <<"org", "_", "golang", "_", "x", "_">>)
         THEN Replace(Replace(repo_name, <<"_">>, <<"/">>),
                      <<"org", "/", "golang", "/", "x", "/">>,
                      <<"golang", ".", "org", "/", "x", "/">>)
         ELSE Replace(repo_name, <<"_">>, <<"/">>)

_get_external_go_target_details(c) ==
    LET label_str == c.label
        repo_name == Tail(BeforeFirst(label_str, <<"/", "/">>))
        import_path == IF Truthy(c.rule.importpath) THEN c.rule.importpath.value ELSE <<>>
        name == import_path
        scanned == ScanVersionAttrs(<<c.rule.version, c.rule.tag, c.rule.ref,
                                      c.rule.uversion>>)
    IN  IF ~StartsWith(label_str, <<"@">>) THEN Details(<<>>, <<"external">>, <<>>)
        ELSE IF Truthy(c.rule.version) THEN Details(name, c.rule.version.value, import_path)
        ELSE IF Truthy(c.rule.tag) THEN Details(name, c.rule.tag.value, import_path)
        ELSE IF Truthy(c.rule.ref) THEN Details(name, c.rule.ref.value, import_path)
        ELSE IF scanned.has THEN Details(name, scanned.value, import_path)
        ELSE Details(IF name = <<>> THEN RepoToName(repo_name) ELSE name,
                     get_go_version_from_query(repo_name), import_path)

_get_internal_go_target_details(c) ==
    Details(AfterLast(c.label, ":"),
            IF Truthy(c.aspectRef) THEN c.aspectRef.value ELSE <<"internal">>,
            IF c.rule.importpath.has THEN c.rule.importpath.value ELSE <<>>)

_get_go_name_version_and_import_path(c) ==
    LET is_internal_target ==
            StartsWith(c.label, <<"@", "/", "/">>) \/ StartsWith(c.label, <<"@", "@", "/", "/">>)
    IN  IF ~is_internal_target THEN _get_external_go_target_details(c)
        ELSE _get_internal_go_target_details(c)

\* Repository names of external units.
RepoNames ==
    { <<"com", "_", "github", "_", "a", "_", "b">>,
      <<"org", "_", "golang", "_", "x", "_", "a">>,
      <<"a", "_", "b">>,
      <<"com", "_", "github", "_", "com", "_", "github", "_", "a">> }

\* str(ctx.label) of the units: of the main repository as "//p:n", "@//p:n"
\* or "@@//p:n", of another repository as "@repo//p:n" or "@@repo//p:n".
IdentityLabels ==
    { prefix \o <<"/", "/", "p", ":", "n">> :
        prefix \in {<<>>, <<"@">>, <<"@", "@">>}
                   \cup {<<"@">> \o r : r \in RepoNames}
                   \cup {<<"@", "@">> \o r : r \in RepoNames} }

\* The values an attribute can have: not there, empty, or the given value.
AttrValues(v) == {NoAttr, Attr(TRUE, <<>>), Attr(TRUE, <<v>>)}

\* The rule contexts the aspect is applied to.
Contexts ==
    [ label : IdentityLabels,
      rule : [ version : AttrValues("v1"),
               tag : AttrValues("t1"),
               ref : {NoAttr, Attr(TRUE, <<"r1">>)},
               uversion : {NoAttr, Attr(TRUE, <<"u1">>)},
               importpath : AttrValues("ip") ],
      aspectRef : {Attr(TRUE, <<>>), Attr(TRUE, <<"ar">>)} ]

\* Mutant of is_internal_target: only the "@//" form of a workspace label is
\* recognised.
is_internal_target_SingleAt(label_str) == StartsWith(label_str, <<"@", "/", "/">>)

\* is_internal_target of the aspect implementation.
is_internal_target(label_str) ==
    StartsWith(label_str, <<"@", "/", "/">>) \/ StartsWith(label_str, <<"@", "@", "/", "/">>)

\* The aspect implementation computes the provider of the unit (the
\* EndorGoDependencyInfo whose fields go into the unit's record).
AspectResolve ==
    /\ tool = "none"
    /\ ctx # <<>>
    /\ provider = <<>>
    /\ LET d == _get_go_name_version_and_import_path(ctx)
       IN  provider' = [original_label |-> ctx.label, name |-> d.name,
                        version |-> d.version,
                        internal |-> is_internal_target(ctx.label),
                        import_path |-> d.import_path]
    /\ UNCHANGED <<deps, evaluated, preMerge, merged, canonical, declared, ctx>>
    /\ UNCHANGED <<procVars, mergeVars, vtaVars>>
    /\ UNCHANGED analysisVars

IdentityNext == AspectResolve

IdentityInit ==
    /\ ToolsIdle
    /\ MergeIdle
    /\ VtaIdle
    /\ AnalysisIdle
    /\ deps = <<>>
    /\ evaluated = {}
    /\ preMerge = <<>>
    /\ merged = <<>>
    /\ canonical = FALSE
    /\ declared = {}
    /\ ctx \in Contexts
    /\ provider = <<>>

SpecIdentity == IdentityInit /\ [][IdentityNext]_vars

(***************************************************************************)
(* Extraction of the call relationships from the refined graph             *)
(* (vta_analyzer_bazel.go main, and the script embedded in                 *)
(* vta_analyzer_simple.go).  The refined graph is the value returned by    *)
(* vta.CallGraph: a map from functions to nodes, each node holding the     *)
(* list of its outgoing edges, one edge per call site.                     *)
(***************************************************************************)

\* The key of the root node: callgraph.New(nil) stores the root under a nil
\* function.
NilFn == "nil"

\* ssa.Function values of the analysed program: Pkg is "" when fn.Pkg or
\* fn.Pkg.Pkg is nil (a function without package linkage), Name is fn.Name(),
\* which for a method is the method name without its receiver.
SsaFunc(pkg, name, params, returns) ==
    [Pkg |-> pkg, Name |-> name, Params |-> params, Returns |-> returns]

SsaFunctions ==
    ( "f"       :> SsaFunc("p", "f", <<>>, <<>>) ) @@
    ( "(A).M"   :> SsaFunc("p", "M", <<>>, <<>>) ) @@
    ( "(B).M"   :> SsaFunc("p", "M", <<"x int">>, <<"error">>) ) @@
    ( "g"       :> SsaFunc("", "g", <<>>, <<>>) )

GraphFuncs == DOMAIN SsaFunctions

\* fmt.Sprintf("%s.%s", fn.Pkg.Pkg.Path(), fn.Name()), or fn.Name() alone.
FuncName(fn) ==
    IF SsaFunctions[fn].Pkg # ""
    THEN <<SsaFunctions[fn].Pkg, ".", SsaFunctions[fn].Name>>
    ELSE <<SsaFunctions[fn].Name>>

FunctionInfo(name, pkg, signature, parameters, returns) ==
    [Name |-> name, Package |-> pkg, Signature |-> signature,
     Parameters |-> parameters, Returns |-> returns]

\* The return part of a rendered signature: none, the single type, or the
\* parenthesised list.
ReturnStr(returns) ==
    IF Len(returns) = 0 THEN <<>>
    ELSE IF Len(returns) = 1 THEN <<returns[1]>>
    ELSE <<"(", returns, ")">>

extractFunctionInfo(fn) ==
    IF fn = NilFn
    THEN FunctionInfo(<<"unknown">>, "unknown", <<"unknown()">>, <<>>, <<>>)
    ELSE LET f == SsaFunctions[fn]
         IN  FunctionInfo(FuncName(fn),
                          IF f.Pkg # "" THEN f.Pkg ELSE "builtin",
                          <<f.Name, "(", f.Params, ")">> \o ReturnStr(f.Returns),
                          f.Params, f.Returns)

CallEdge(caller, callee) == [Caller |-> caller, Callee |-> callee]

RECURSIVE EdgeSeqs(_, _)
\* The sequences of at most n call sites between the functions of S.
EdgeSeqs(S, n) ==
    IF n = 0 THEN {<<>>}
    ELSE LET shorter == EdgeSeqs(S, n - 1)
         IN  shorter \cup { Append(es, <<a, b>>) :
                              es \in {q \in shorter : Len(q) = n - 1},
                              a \in S, b \in S }

RECURSIVE OutOf(_, _)
\* The callees of the call sites of fn, in order.
OutOf(es, fn) ==
    IF es = <<>> THEN <<>>
    ELSE IF Head(es)[1] = fn THEN <<Head(es)[2]>> \o OutOf(Tail(es), fn)
    ELSE OutOf(Tail(es), fn)

\* callgraph.Graph: Nodes holds the root and the functions of the program,
\* Out the outgoing edges of each node (the root has none).
CallGraphOf(S, es) ==
    [Nodes |-> S \cup {NilFn},
     Out   |-> [fn \in S \cup {NilFn} |-> IF fn = NilFn THEN <<>> ELSE OutOf(es, fn)]]

\* The graphs left by vta.CallGraph and DeleteSyntheticNodes: some functions
\* of the program and at most MaxEdges call sites between them.
RefinedGraphs ==
    UNION { { CallGraphOf(S, es) : es \in EdgeSeqs(S, MaxEdges) } :
            S \in SUBSET GraphFuncs \ {{}} }

\* m[k] = v of a Go map.
Put(m, k, v) == [x \in DOMAIN m \cup {k} |-> IF x = k THEN v ELSE m[x]]

\* The edges of node.Out the loop does not skip: the edge, its callee node and
\* the callee's function are not nil.
KeptEdges(out) == SelectSeq(out, LAMBDA c : c # NilFn)

\* callees of one iteration over vtaCG.Nodes: one name appended per edge.
NodeCallees_NoSelf(fn) ==
    LET out == SelectSeq(KeptEdges(graph.Out[fn]), LAMBDA c : c # fn)
    IN  [i \in 1..Len(out) |-> FuncName(out[i])]

NodeCallees(fn) ==
    LET out == KeptEdges(graph.Out[fn])
    IN  [i \in 1..Len(out) |-> FuncName(out[i])]

RECURSIVE PutInfos(_, _)
\* functions[info.Name] = info for each function of fns in turn.
PutInfos(m, fns) ==
    IF fns = <<>> THEN m
    ELSE LET info == extractFunctionInfo(Head(fns))
         IN  PutInfos(Put(m, info.Name, info), Tail(fns))

\* functions after one iteration: the caller is stored, then the callee of
\* each edge.
NodeFunctions_CalleesOnly(m, fn) == PutInfos(m, KeptEdges(graph.Out[fn]))

NodeFunctions(m, fn) == PutInfos(m, <<fn>> \o KeptEdges(graph.Out[fn]))

\* The entries one iteration appends to callEdges.
NodeCallEdges(fn) ==
    LET out == KeptEdges(graph.Out[fn])
    IN  [i \in 1..Len(out) |->
            CallEdge(extractFunctionInfo(fn), extractFunctionInfo(out[i]))]

\* vta_analyzer_bazel: one iteration of the loop over vtaCG.Nodes.  Go visits
\* the keys of a map in an unspecified order.
BzlExtract ==
    /\ tool = "vtab" /\ pc = "g_loop"
    /\ \E fn \in graph.Nodes \ visited :
          /\ visited' = visited \cup {fn}
          /\ IF fn = NilFn
             THEN UNCHANGED <<callGraph, totalEdges>>
             ELSE LET callees == NodeCallees(fn)
                  IN  /\ totalEdges' = totalEdges + Len(callees)
                      /\ callGraph' = IF Len(callees) > 0
                                      THEN Put(callGraph, FuncName(fn), callees)
                                      ELSE callGraph
    /\ UNCHANGED <<graph, functions, callEdges>>
    /\ UNCHANGED <<procVars, mergeVars, vtaVars, aspectVars, raceVars, loadVars>>

\* vta_analyzer_bazel: the result built after the loop.
BzlBuildResult ==
    /\ tool = "vtab" /\ pc = "g_loop"
    /\ visited = graph.Nodes
    /\ result' = BazelResult(targetID, targetName, targetPkgPath, callGraph,
                             Cardinality(DOMAIN callGraph), totalEdges)
    /\ pc' = "g_done"
    /\ UNCHANGED <<tool, hasArgs, outputFile, stderr, exitCode, fs, wrote>>
    /\ UNCHANGED <<packagesFile, wsMarkers, cwdOk, targetID, targetName,
                   targetPkgPath, workspaceRoot>>
    /\ UNCHANGED <<mergeVars, aspectVars, analysisVars>>

\* The script: one iteration of the loop over vtaCG.Nodes.
ScriptExtract ==
    /\ tool = "script" /\ pc = "g_loop"
    /\ \E fn \in graph.Nodes \ visited :
          /\ visited' = visited \cup {fn}
          /\ IF fn = NilFn
             THEN UNCHANGED <<callGraph, functions, callEdges, totalEdges>>
             ELSE LET callees == NodeCallees(fn)
                  IN  /\ functions' = NodeFunctions(functions, fn)
                      /\ callEdges' = callEdges \o NodeCallEdges(fn)
                      /\ totalEdges' = totalEdges + Len(callees)
                      /\ callGraph' = IF Len(callees) > 0
                                      THEN Put(callGraph, FuncName(fn), callees)
                                      ELSE callGraph
    /\ UNCHANGED graph
    /\ UNCHANGED <<procVars, mergeVars, vtaVars, aspectVars, raceVars, loadVars>>

\* Mutant of ScriptBuildResult: total_functions counts the entries of
\* functions.
ScriptBuildResult_CountFunctions ==
    /\ tool = "script" /\ pc = "g_loop"
    /\ visited = graph.Nodes
    /\ result' = ScriptResult(targetID, targetName, targetPkgPath, callGraph,
                              functions, callEdges,
                              Cardinality(DOMAIN functions), totalEdges)
    /\ stdout' = <<result'>>
    /\ pc' = "g_done"
    /\ UNCHANGED <<tool, hasArgs, outputFile, stderr, exitCode, fs, wrote>>
    /\ UNCHANGED <<packagesFile, wsMarkers, cwdOk, targetID, targetName,
                   targetPkgPath, workspaceRoot>>
    /\ UNCHANGED <<mergeVars, aspectVars, raceVars, graphVars, loadedPkgs, goFiles, loads,
                   validPackages>>

\* The script: the result built after the loop and encoded on standard output.
ScriptBuildResult ==
    /\ tool = "script" /\ pc = "g_loop"
    /\ visited = graph.Nodes
    /\ result' = ScriptResult(targetID, targetName, targetPkgPath, callGraph,
                              functions, callEdges,
                              Cardinality(DOMAIN callGraph), totalEdges)
    /\ stdout' = <<result'>>
    /\ pc' = "g_done"
    /\ UNCHANGED <<tool, hasArgs, outputFile, stderr, exitCode, fs, wrote>>
    /\ UNCHANGED <<packagesFile, wsMarkers, cwdOk, targetID, targetName,
                   targetPkgPath, workspaceRoot>>
    /\ UNCHANGED <<mergeVars, aspectVars, raceVars, graphVars, loadedPkgs, goFiles, loads,
                   validPackages>>

GraphNext == BzlExtract \/ BzlBuildResult \/ ScriptExtract \/ ScriptBuildResult

\* The state after vta.CallGraph returned and the maps were made.
GraphInit ==
    /\ tool \in {"vtab", "script"}
    /\ pc = "g_loop"
    /\ hasArgs = TRUE
    /\ outputFile = OutPath(1)
    /\ stderr = <<>>
    /\ exitCode = -1
    /\ wrote = FALSE
    /\ fs = (OutPath(1) :> MissingFile)
    /\ packagesFile = [kind |-> "json", pkgs |-> <<>>]
    /\ wsMarkers = {}
    /\ cwdOk = TRUE
    /\ targetID = "@//app:app"
    /\ targetName = "app"
    /\ targetPkgPath = "p"
    /\ workspaceRoot = NoRoot
    /\ result = NoResult
    /\ MergeIdle
    /\ AspectIdle
    /\ loadedPkgs = <<>>
    /\ goFiles = <<>>
    /\ loads = <<>>
    /\ validPackages = <<>>
    /\ stdout = <<>>
    /\ graph \in RefinedGraphs
    /\ visited = {}
    /\ callGraph = <<>>
    /\ functions = <<>>
    /\ callEdges = <<>>
    /\ totalEdges = 0
    /\ tmpFile = <<>>
    /\ runs = <<>>

SpecGraph == GraphInit /\ [][GraphNext]_vars

(***************************************************************************)
(* Resolution of the workspace root on its own: vta_analyzer_simple has    *)
(* read a packages file without packages and calls findWorkspaceRoot.      *)
(***************************************************************************)

RootNext == VtaFindWorkspaceRoot

RootInit ==
    /\ tool = "vta"
    /\ pc = "v_root"
    /\ hasArgs = TRUE
    /\ outputFile = OutPath(1)
    /\ stderr = <<>>
    /\ exitCode = -1
    /\ wrote = FALSE
    /\ fs = (OutPath(1) :> MissingFile)
    /\ packagesFile = [kind |-> "json", pkgs |-> <<>>]
    /\ wsMarkers \in {m \in SUBSET ({Candidates[k] : k \in DOMAIN Candidates} \X Markers) :
                          Cardinality(m) <= MaxProbed}
    /\ cwdOk \in BOOLEAN
    /\ targetID = ""
    /\ targetName = ""
    /\ targetPkgPath = "unknown"
    /\ workspaceRoot = NoRoot
    /\ result = NoResult
    /\ MergeIdle
    /\ AspectIdle
    /\ AnalysisIdle

SpecRoot == RootInit /\ [][RootNext]_vars

(***************************************************************************)
(* Concurrent runs of vta_analyzer_simple, one per root.  Each run is in   *)
(* runWorkspaceVTAAnalysis: it writes its script to the one path           *)
(* filepath.Join(os.TempDir(), "vta_analysis.go"), has go run execute the  *)
(* file at that path and removes the file when it returns.  The text of a  *)
(* script holds the target ID, name and package path of the run that wrote *)
(* it.                                                                     *)
(***************************************************************************)
Runs == 1..MaxRuns

\* The target each run selected from its own packages file.
RunTargets ==
    << Pkg("@//app:a", "a", "example.com/a"), Pkg("@//lib:b", "b", "example.com/b"),
       Pkg("@//cmd:c", "c", "example.com/c") >>

RunTarget(p) == RunTargets[p]

\* The states of the file at the shared path: absent, truncated, holding the
\* script of one run, or holding bytes of more than one script.
NoScriptFile == [kind |-> "missing", of |-> 0]
TruncatedFile == [kind |-> "empty", of |-> 0]
ScriptFile(p) == [kind |-> "script", of |-> p]
GarbledFile == [kind |-> "garbled", of |-> 0]

\* One run: its control point and what runWorkspaceVTAAnalysis returned.
Run(at, failed, res) == [pc |-> at, failed |-> failed, result |-> res]

\* The empty result of run p, returned on each failure path.
RunEmptyResult(p) ==
    EmptyResult(RunTarget(p).ID, RunTarget(p).Name, RunTarget(p).PkgPath)

\* os.WriteFile, first half: OpenFile with O_TRUNC; on an error the function
\* returns the empty result before the deferred os.Remove is registered.
RaceOpenScript(p) ==
    /\ tool = "race"
    /\ runs[p].pc = "r_open"
    /\ \/ /\ tmpFile' = TruncatedFile
          /\ runs' = [runs EXCEPT ![p] = Run("r_write", FALSE, NoResult)]
       \/ /\ runs' = [runs EXCEPT ![p] = Run("r_done", TRUE, RunEmptyResult(p))]
          /\ UNCHANGED tmpFile
    /\ UNCHANGED <<procVars, mergeVars, vtaVars, aspectVars, loadVars, graphVars>>

\* os.WriteFile, second half: the bytes of the script are written at offset
\* 0 of the file opened before.  A file another run removed meanwhile stays
\* absent from the path; bytes another run wrote since the truncation are
\* overwritten in part or in whole.
RaceWriteScript(p) ==
    /\ tool = "race"
    /\ runs[p].pc = "r_write"
    /\ tmpFile' \in CASE tmpFile.kind = "missing" -> {tmpFile}
                     [] tmpFile.kind = "empty" -> {ScriptFile(p)}
                     [] OTHER -> {ScriptFile(p), GarbledFile}
    /\ runs' = [runs EXCEPT ![p] = Run("r_run", FALSE, NoResult)]
    /\ UNCHANGED <<procVars, mergeVars, vtaVars, aspectVars, loadVars, graphVars>>

\* exec.Command("go", "run", tmpFile, absPackagesFile).Output() and
\* json.Unmarshal of its output: go run compiles and runs whatever the path
\* holds.  A failure of the command or an unparsable output gives the empty
\* result of this run; otherwise the parsed result is returned as it is,
\* with the identity fields written in the script that ran.
RaceGoRun(p) ==
    /\ tool = "race"
    /\ runs[p].pc = "r_run"
    /\ \/ runs' = [runs EXCEPT ![p] = Run("r_remove", TRUE, RunEmptyResult(p))]
       \/ /\ tmpFile.kind = "script"
          /\ \E t \in AnalysisTotals :
                runs' = [runs EXCEPT ![p] =
                           Run("r_remove", FALSE,
                               CallGraphResult(RunTarget(tmpFile.of).ID,
                                               RunTarget(tmpFile.of).Name,
                                               RunTarget(tmpFile.of).PkgPath,
                                               t[1], t[2]))]
    /\ UNCHANGED tmpFile
    /\ UNCHANGED <<procVars, mergeVars, vtaVars, aspectVars, loadVars, graphVars>>

\* The deferred os.Remove(tmpFile) as runWorkspaceVTAAnalysis returns: the
\* path is unlinked whichever run wrote the file; main then writes the
\* result to the run's own output file.
RaceRemoveScript(p) ==
    /\ tool = "race"
    /\ runs[p].pc = "r_remove"
    /\ tmpFile' = NoScriptFile
    /\ runs' = [runs EXCEPT ![p].pc = "r_done"]
    /\ UNCHANGED <<procVars, mergeVars, vtaVars, aspectVars, loadVars, graphVars>>

RaceNext ==
    \E p \in Runs :
        \/ RaceOpenScript(p)
        \/ RaceWriteScript(p)
        \/ RaceGoRun(p)
        \/ RaceRemoveScript(p)

\* Every run has parsed its packages file and enters runWorkspaceVTAAnalysis;
\* no script file is left from an earlier run.
RaceInit ==
    /\ tool = "race"
    /\ pc = "idle"
    /\ hasArgs = TRUE
    /\ outputFile = OutPath(1)
    /\ stderr = <<>>
    /\ exitCode = -1
    /\ wrote = FALSE
    /\ fs = <<>>
    /\ MergeIdle
    /\ VtaIdle
    /\ AspectIdle
    /\ loadedPkgs = <<>>
    /\ goFiles = <<>>
    /\ loads = <<>>
    /\ validPackages = <<>>
    /\ stdout = <<>>
    /\ graph = <<>>
    /\ visited = {}
    /\ callGraph = <<>>
    /\ functions = <<>>
    /\ callEdges = <<>>
    /\ totalEdges = 0
    /\ tmpFile = NoScriptFile
    /\ runs = [p \in Runs |-> Run("r_open", FALSE, NoResult)]

SpecRace == RaceInit /\ [][RaceNext]_vars

Init == MergeInit \/ VtaInit

Next == GiveInput \/ MergeNext \/ VtaNext

Spec == Init /\ [][Next]_vars

(***************************************************************************)
(* Vocabulary of the merger's properties.                                  *)
(***************************************************************************)
\* The run has ended with status 0.
MergeDone == tool = "merge" /\ pc = "exit" /\ exitCode = 0

\* The nodes of the output file.
Out == fs[outputFile].nodes

\* The nodes of the inputs that were read and parsed, in traversal order
\* (inputs in argument order, nodes in file order).
RECURSIVE NodesOf(_)
NodesOf(paths) ==
    IF paths = <<>> THEN <<>>
    ELSE (IF fs[Head(paths)].kind = "json" THEN fs[Head(paths)].nodes ELSE <<>>)
         \o NodesOf(Tail(paths))

Traversal == NodesOf(inputFiles)

\* The node carries a non-empty string original_label.
Labelled(n) ==
    n.content.form = "object" /\ n.content.labelType = "string" /\ n.content.label # ""

LabelsIn(seq) == {seq[k].content.label : k \in {j \in DOMAIN seq : Labelled(seq[j])}}

FirstWith(seq, l) ==
    CHOOSE k \in DOMAIN seq :
        /\ Labelled(seq[k]) /\ seq[k].content.label = l
        /\ \A j \in 1..(k - 1) : ~(Labelled(seq[j]) /\ seq[j].content.label = l)

CountRaw(seq, n) == Cardinality({k \in DOMAIN seq : seq[k] = n})
CountContent(seq, c) == Cardinality({k \in DOMAIN seq : seq[k].content = c})

\* C1: in the output of a merge every non-empty original_label occurs in at
\* most one node, and that node is the first node carrying the label in
\* traversal order among the inputs that were read and parsed; later nodes
\* with the label are dropped even when their other fields differ.
C1_FirstSeenWins ==
    MergeDone =>
        /\ \A i, j \in DOMAIN Out :
              (i # j /\ Labelled(Out[i]) /\ Labelled(Out[j]))
                  => Out[i].content.label # Out[j].content.label
        /\ \A i \in DOMAIN Out :
              Labelled(Out[i]) =>
                  /\ Out[i].content.label \in LabelsIn(Traversal)
                  /\ Out[i].content =
                        Traversal[FirstWith(Traversal, Out[i].content.label)].content

\* Two inputs carry the same label with different fields, and the merge is done.
C1_Witness ==
    /\ MergeDone /\ run = 1 /\ Len(inputFiles) = 2
    /\ fs[InPath(1)].kind = "json" /\ fs[InPath(2)].kind = "json"
    /\ \E i \in DOMAIN fs[InPath(1)].nodes, j \in DOMAIN fs[InPath(2)].nodes :
          LET a == fs[InPath(1)].nodes[i]
              b == fs[InPath(2)].nodes[j]
          IN  /\ Labelled(a) /\ Labelled(b)
              /\ a.content.label = b.content.label
              /\ a.content.body # b.content.body
    /\ Len(Out) = 1

\* C2 as stated: every node of a readable input without a non-empty string
\* label (or not an object) appears in the output byte-for-byte unchanged,
\* once per occurrence.
C2_PassThroughBytes ==
    MergeDone =>
        \A k \in DOMAIN Traversal :
            ~Labelled(Traversal[k]) =>
                CountRaw(Out, Traversal[k]) = CountRaw(Traversal, Traversal[k])

\* C2 as amended: every such node appears in the output with its JSON content
\* unchanged and in compact layout, once per occurrence; it is never
\* deduplicated and never dropped.
C2_PassThroughContent ==
    MergeDone =>
        /\ \A k \in DOMAIN Traversal :
              ~Labelled(Traversal[k]) =>
                  CountContent(Out, Traversal[k].content)
                      = CountContent(Traversal, Traversal[k].content)
        /\ \A i \in DOMAIN Out : ~Out[i].spaced

\* The same unlabelled node occurs in two inputs and both copies are in the output.
C2_Witness ==
    /\ MergeDone /\ run = 1 /\ Len(inputFiles) = 2
    /\ fs[InPath(1)].kind = "json" /\ fs[InPath(2)].kind = "json"
    /\ Len(fs[InPath(1)].nodes) = 1
    /\ fs[InPath(1)].nodes = fs[InPath(2)].nodes
    /\ ~Labelled(fs[InPath(1)].nodes[1])
    /\ fs[InPath(1)].nodes[1].content.form = "nonobject"
    /\ Len(Out) = 2

\* C3 as stated: the output is the deduplicated union of the readable inputs:
\* its set of non-empty labels is that of the inputs read and parsed, and
\* every output node is verbatim a node of some input.
C3_UnionVerbatim ==
    MergeDone =>
        /\ LabelsIn(Out) = LabelsIn(Traversal)
        /\ \A i \in DOMAIN Out : \E k \in DOMAIN Traversal : Out[i] = Traversal[k]

\* C3 as amended: the label sets are equal and every output node has the JSON
\* content of a node of some input (its text is re-emitted compact).
C3_UnionContent ==
    MergeDone =>
        /\ LabelsIn(Out) = LabelsIn(Traversal)
        /\ \A i \in DOMAIN Out :
              \E k \in DOMAIN Traversal : Out[i].content = Traversal[k].content

\* Two readable inputs with different labels are merged into one output.
C3_Witness ==
    /\ MergeDone /\ run = 1 /\ Len(inputFiles) = 2
    /\ Cardinality(LabelsIn(fs[InPath(1)].nodes)) = 1
    /\ Cardinality(LabelsIn(fs[InPath(2)].nodes)) = 1
    /\ fs[InPath(1)].kind = "json" /\ fs[InPath(2)].kind = "json"
    /\ Cardinality(LabelsIn(Out)) = 2

\* C4: merging is idempotent: merging the output of a merge as the sole input
\* yields an output with the same nodes, also when it holds zero nodes.
C4_Idempotent ==
    (MergeDone /\ run = 2) => fs[OutPath(2)] = fs[OutPath(1)]

\* The second merge is done over a first output that holds nodes.
C4_Witness ==
    /\ MergeDone /\ run = 2
    /\ Len(fs[OutPath(1)].nodes) = 2
    /\ \E i \in DOMAIN Out : ~Labelled(Out[i])

\* The second merge is done over a first output that holds zero nodes.
C4_WitnessEmpty ==
    MergeDone /\ run = 2 /\ fs[OutPath(1)].nodes = <<>> /\ fs[OutPath(1)].isNull

\* The warnings the inputs call for: none for a missing file, one for an
\* unreadable and one for an unparseable file, in argument order.
RECURSIVE WarningsFor(_)
WarningsFor(paths) ==
    IF paths = <<>> THEN <<>>
    ELSE LET k == fs[Head(paths)].kind
         IN  (CASE k = "unreadable" -> <<Diag("warning", "read", Head(paths))>>
                [] k = "malformed"  -> <<Diag("warning", "parse", Head(paths))>>
                [] OTHER -> <<>>)
             \o WarningsFor(Tail(paths))

IsWarning(d) == d.level = "warning"

\* C5: a missing, unreadable or unparseable input is skipped without effect on
\* the merge: the loop visits every input, a skipped input contributes no
\* node and marks no label as seen (the record of a readable input is
\* retained for a label that also occurs in a skipped file), a missing file
\* gives no warning, an unreadable or unparseable one gives one warning.
C5_SkippedInputs ==
    (tool = "merge" /\ hasArgs /\ pc \in {"m_open", "m_write", "exit"}) =>
        /\ idx = Len(inputFiles) + 1
        /\ SelectSeq(stderr, IsWarning) = WarningsFor(inputFiles)
        /\ \A i \in DOMAIN mergedNodes :
              \E k \in DOMAIN Traversal : mergedNodes[i] = Traversal[k]
        /\ \A l \in LabelsIn(Traversal) :
              \E i \in DOMAIN mergedNodes :
                  mergedNodes[i] = Traversal[FirstWith(Traversal, l)]

\* An unparseable first input holds a label that the readable second input
\* holds too; the merge ends with status 0 and the second input's record.
C5_Witness ==
    /\ MergeDone /\ run = 1 /\ Len(inputFiles) = 2
    /\ fs[InPath(1)].kind = "malformed" /\ fs[InPath(2)].kind = "json"
    /\ Len(fs[InPath(1)].nodes) = 1 /\ Len(fs[InPath(2)].nodes) = 1
    /\ Labelled(fs[InPath(1)].nodes[1])
    /\ fs[InPath(1)].nodes[1].content.label = fs[InPath(2)].nodes[1].content.label
    /\ fs[InPath(1)].nodes[1].content.body # fs[InPath(2)].nodes[1].content.body
    /\ Len(Out) = 1
    /\ Out[1].content = fs[InPath(2)].nodes[1].content
    /\ Len(stderr) = 1

\* What the output path held before the run.
Previous == IF run = 1 THEN EarlierOutputs ELSE {MissingFile}

\* C6: the output file is written atomically: at every point of a merge, and
\* after a merge whose write fails, the output path holds its previous state
\* or the complete merged result, never an empty or partial one.
C6_AtomicOutput ==
    tool = "merge" =>
        \/ fs[outputFile] \in Previous
        \/ pc = "exit" /\ fs[outputFile] = Marshal(mergedNodes)

\* The process has ended.
Exited == pc = "exit"

LastDiag == stderr[Len(stderr)]

\* C7: in the merger and in the call-graph builder, a run that ends without
\* having written its output file (the directory could not be created, the
\* file could not be written) ends with a non-zero status and an error
\* message; a run that ends with status 0 has written the complete output.
C7_FatalOutputFailure ==
    Exited =>
        /\ exitCode = 0 <=> wrote
        /\ ~wrote =>
              /\ exitCode = 1
              /\ stderr # <<>>
              /\ LastDiag.level \in {"error", "fatal", "usage"}
        /\ wrote =>
              fs[outputFile] = IF tool = "merge" THEN Marshal(mergedNodes)
                               ELSE File("result", FALSE, <<result>>)

\* The builder ends after writeResult failed to write the output file.
C7_Witness ==
    /\ Exited /\ tool = "vta" /\ hasArgs
    /\ ~wrote /\ exitCode = 1
    /\ LastDiag = Diag("fatal", "write", outputFile)

\* C8: given an output path, the merger ends with status 0 whatever the
\* inputs are; the only cause of a non-zero status is a failure to create the
\* output directory or to write the output file.
C8_ExitStatus ==
    (Exited /\ tool = "merge" /\ hasArgs) =>
        /\ exitCode \in {0, 1}
        /\ exitCode = 1 =>
              LastDiag.level = "error" /\ LastDiag.what \in {"mkdir", "write"}
        /\ exitCode = 0 <=> \A k \in DOMAIN stderr : stderr[k].level = "warning"

\* The merger ends with status 0 although no input could be used.
C8_Witness ==
    /\ MergeDone /\ run = 1 /\ Len(inputFiles) = 2
    /\ fs[InPath(1)].kind = "malformed" /\ fs[InPath(2)].kind = "unreadable"
    /\ Len(stderr) = 2

(***************************************************************************)
(* Properties of the aspects.                                              *)
(***************************************************************************)
\* The units transitively reachable from u through deps.
Reachable(u) == ReachWithin(deps, u, MaxUnits)

C10_CollisionFree ==
    \A x, y \in declared :
        x.label # y.label => x.name # y.name /\ x.files \cap y.files = {}

\* Two targets of one package have been declared whose labels differ.
C10_Reached ==
    \E x, y \in declared :
        /\ x.label # y.label
        /\ x.target.repo = y.target.repo
        /\ x.target.package = y.target.package

(***************************************************************************)
(* Properties of the name, version and import path of a unit.              *)
(***************************************************************************)
\* The provider of the unit has been computed.
Resolved == tool = "none" /\ ctx # <<>> /\ provider # <<>>

\* The repository part of the unit's label, without the leading "@"s.
RepoOf(label) ==
    LET head == BeforeFirst(label, <<"/", "/">>)
    IN  SelectSeq(head, LAMBDA t : t # "@")

\* The unit's label is rooted at the workspace root.
InternalUnit == RepoOf(ctx.label) = <<>>

\* The first non-empty of the unit's version, tag and ref attributes.
ExplicitVersion == ScanVersionAttrs(<<ctx.rule.version, ctx.rule.tag, ctx.rule.ref>>)

\* C11: a non-empty version, else tag, else ref attribute of the unit is
\* used verbatim as its version, before the internal classification: an
\* internal unit carrying such an attribute gets that value, and gets
\* "internal" only when no version-bearing attribute is set.
C11_VersionOrder ==
    Resolved =>
        /\ ExplicitVersion.has => provider.version = ExplicitVersion.value
        /\ (InternalUnit /\ provider.version = <<"internal">>) => ~ExplicitVersion.has

\* The provider of an internal unit with a non-empty version attribute has
\* been computed.
C11_Reached ==
    /\ Resolved /\ StartsWith(ctx.label, <<"@", "/", "/">>)
    /\ Truthy(ctx.rule.version) /\ ~Truthy(ctx.aspectRef)
    /\ provider.version = <<"internal">>

\* No version, tag, ref or _version attribute of the unit is non-empty.
NoVersionAttr ==
    ~ScanVersionAttrs(<<ctx.rule.version, ctx.rule.tag, ctx.rule.ref,
                        ctx.rule.uversion>>).has

\* C12: a unit that is not internal and carries no version-bearing attribute
\* gets the version the oracle returns for its repository, which is
\* "external" when the oracle has no answer; the version of a record is
\* never the empty string.
C12_OracleVersion ==
    Resolved =>
        /\ (~InternalUnit /\ NoVersionAttr) =>
              /\ provider.version = get_go_version_from_query(RepoOf(ctx.label))
              /\ provider.version = <<"external">>
        /\ provider.version # <<>>

\* The provider of an external unit whose version attributes are all absent
\* or empty has been computed.
C12_Witness ==
    /\ Resolved /\ ~InternalUnit /\ NoVersionAttr
    /\ ctx.rule.version = Attr(TRUE, <<>>) /\ ctx.rule.tag = Attr(TRUE, <<>>)
    /\ provider.version = <<"external">>

\* The name C13 states for a repository name.
RECURSIVE Slashed(_)
Slashed(s) ==
    IF s = <<>> THEN <<>>
    ELSE <<IF Head(s) = "_" THEN "/" ELSE Head(s)>> \o Slashed(Tail(s))

StatedName(repo) ==
    IF StartsWith(repo, <<"com", "_", "github", "_">>)
    THEN <<"github", ".", "com", "/">> \o Slashed(SubSeq(repo, 5, Len(repo)))
    ELSE IF StartsWith(repo, <<"org", "_", "golang", "_", "x", "_">>)
         THEN <<"golang", ".", "org", "/", "x", "/">> \o Slashed(SubSeq(repo, 7, Len(repo)))
         ELSE Slashed(repo)

\* C13: an external unit without an explicit import-path attribute has the
\* name derived from its repository name (com_github_<rest> gives
\* github.com/<rest>, org_golang_x_<rest> gives golang.org/x/<rest>, any other
\* name itself, every _ as /), whether or not it carries a version attribute.
C13_DerivedName ==
    (Resolved /\ ~InternalUnit /\ ~Truthy(ctx.rule.importpath)) =>
        provider.name = StatedName(RepoOf(ctx.label))

\* The provider of an external unit with a version attribute and no import
\* path has been computed.
C13_Reached ==
    /\ Resolved /\ ~InternalUnit /\ ~ctx.rule.importpath.has
    /\ Truthy(ctx.rule.version)

(***************************************************************************)
(* Properties of the call-graph builder's results.                         *)
(***************************************************************************)
\* The result says: no function, no edge, no call, algorithm VTA.
IsEmptyResult(r) ==
    /\ r.total_functions = 0
    /\ r.total_edges = 0
    /\ r.call_graph = NoCalls
    /\ r.algorithm = "VTA"

\* Package loading has ended without an error and with no package the
\* analyzer can use.
NoUsableBazel ==
    /\ tool = "vtab" /\ pc \in {"b_write", "exit"}
    /\ hasArgs /\ packagesFile.kind = "json"
    /\ \A k \in DOMAIN loadedPkgs : ~(loadedPkgs[k].Syntax > 0 \/ loadedPkgs[k].Types)

NoUsableScript ==
    /\ tool = "script" /\ pc = "exit" /\ stderr = <<>>
    /\ \A k \in DOMAIN loadedPkgs : ~(loadedPkgs[k].Syntax > 0 /\ loadedPkgs[k].Types)

C15_AlwaysExitsZero ==
    ( /\ tool = "vta" /\ Exited /\ hasArgs
      /\ \A k \in DOMAIN stderr : stderr[k].what \notin {"mkdir", "write"} ) =>
        /\ exitCode = 0
        /\ wrote
        /\ fs[outputFile] = File("result", FALSE, <<result>>)

\* The builder has ended on a malformed packages file.
C15_Reached ==
    /\ tool = "vta" /\ Exited /\ hasArgs
    /\ packagesFile.kind = "malformed"
    /\ exitCode = 1


(***************************************************************************)
(* Properties of the extracted call relationships.                         *)
(***************************************************************************)

\* The elements of a list.
Elems(l) == { l[i] : i \in DOMAIN l }

\* The result of the extraction has been built.
Extracted == tool \in {"vtab", "script"} /\ pc = "g_done"

\* The functions of the refined graph that have an edge the loop keeps.
Callers == { fn \in graph.Nodes \ {NilFn} : Len(KeptEdges(graph.Out[fn])) > 0 }

RECURSIVE SumOut(_)
\* The number of kept edges of the nodes of S.
SumOut(S) ==
    IF S = {} THEN 0
    ELSE LET fn == CHOOSE x \in S : TRUE
         IN  Len(KeptEdges(graph.Out[fn])) + SumOut(S \ {fn})

\* C17: in call_graph of every result no callee name occurs more than once
\* in the list of a caller.
C17_NoDuplicateCallee ==
    Extracted =>
        \A k \in DOMAIN result.call_graph :
            \A i, j \in DOMAIN result.call_graph[k] :
                i # j => result.call_graph[k][i] # result.call_graph[k][j]

\* A result of a graph whose only edges are two call sites f -> g.
C17_Reached ==
    /\ Extracted
    /\ "f" \in graph.Nodes
    /\ graph.Out["f"] = <<"g", "g">>
    /\ \A fn \in graph.Nodes \ {"f"} : graph.Out[fn] = <<>>
    /\ result.call_graph[<<"p", ".", "f">>] = <<<<"g">>, <<"g">>>>
    /\ result.total_edges = 2

\* C18: for every retained edge the callee's name is an element of
\* call_graph[caller's name].
C18_GroupedByCaller ==
    Extracted =>
        \A fn \in Callers :
            /\ FuncName(fn) \in DOMAIN result.call_graph
            /\ \A c \in Elems(KeptEdges(graph.Out[fn])) :
                  FuncName(c) \in Elems(result.call_graph[FuncName(fn)])

\* A result of a graph in which (A).M calls f and (B).M calls g.
C18_Reached ==
    /\ Extracted
    /\ {"(A).M", "(B).M"} \subseteq graph.Nodes
    /\ graph.Out["(A).M"] = <<"f">>
    /\ graph.Out["(B).M"] = <<"g">>
    /\ result.call_graph[<<"p", ".", "M">>] = <<<<"g">>>>
    /\ result.total_edges = 2

\* The function names of a result of the script.
ResultNames(r) ==
    DOMAIN r.call_graph
    \cup UNION { Elems(r.call_graph[k]) : k \in DOMAIN r.call_graph }
    \cup { r.call_edges[i].Caller.Name : i \in DOMAIN r.call_edges }
    \cup { r.call_edges[i].Callee.Name : i \in DOMAIN r.call_edges }

\* C19: every function name in call_graph or call_edges of a result of the
\* script is a key of functions, and the name of that entry is the key.
C19_SignaturesCoverNames ==
    (Extracted /\ tool = "script") =>
        /\ ResultNames(result) \subseteq DOMAIN result.functions
        /\ \A k \in DOMAIN result.functions : result.functions[k].Name = k

\* A result of the script for a caller that no edge calls, a callee without
\* a package and two functions of one name.
C19_Witness ==
    /\ Extracted /\ tool = "script"
    /\ {"(A).M", "(B).M"} \subseteq graph.Nodes
    /\ graph.Out["(A).M"] = <<"g">>
    /\ graph.Out["(B).M"] = <<>>
    /\ \A fn \in graph.Nodes : "(A).M" \notin Elems(graph.Out[fn])
    /\ DOMAIN result.functions = {<<"p", ".", "M">>, <<"g">>}
    /\ result.functions[<<"g">>].Package = "builtin"

\* The name of fn is the name of no other function that has an edge.
UniqueCaller(fn) == \A g \in Callers : FuncName(g) = FuncName(fn) => g = fn

\* C20: a self-call is kept as an edge.  The result of a program whose only
\* function f calls itself has call_graph f -> [f], total_functions 1 and
\* total_edges 1; in every result total_edges counts every edge, self-calls
\* included, and a self-call of fn is listed under fn's name (when no other
\* caller has that name) and, for the script, in call_edges.
C20_SelfCallKept ==
    Extracted =>
        /\ (graph.Nodes = {NilFn, "f"} /\ graph.Out["f"] = <<"f">>)
              => /\ DOMAIN result.call_graph = {FuncName("f")}
                 /\ result.call_graph[FuncName("f")] = <<FuncName("f")>>
                 /\ result.total_functions = 1
                 /\ result.total_edges = 1
        /\ result.total_edges = SumOut(graph.Nodes)
        /\ \A fn \in graph.Nodes \ {NilFn} :
              fn \in Elems(graph.Out[fn]) =>
                 /\ UniqueCaller(fn) =>
                       /\ FuncName(fn) \in DOMAIN result.call_graph
                       /\ FuncName(fn) \in Elems(result.call_graph[FuncName(fn)])
                 /\ tool = "script" =>
                       CallEdge(extractFunctionInfo(fn), extractFunctionInfo(fn))
                          \in Elems(result.call_edges)

\* The result of the program whose only function f calls itself.
C20_Witness ==
    /\ Extracted
    /\ graph.Nodes = {NilFn, "f"}
    /\ graph.Out["f"] = <<"f">>
    /\ result.call_graph = (FuncName("f") :> <<FuncName("f")>>)
    /\ result.total_functions = 1
    /\ result.total_edges = 1


(***************************************************************************)
(* Properties of the builder's result when no target package is selected.  *)
(***************************************************************************)

\* The loop over response.Packages selected no package.
NoTargetSelected ==
    /\ packagesFile.kind = "json"
    /\ \/ tool = "script" /\ SelectTarget(packagesFile.pkgs).ID = ""
       \/ tool = "vtab" /\ hasArgs /\ SelectTargetWithFiles(packagesFile.pkgs).ID = ""

\* The process has ended with status 0 and has emitted its result.
Emitted ==
    /\ tool \in {"script", "vtab"} /\ pc = "exit" /\ exitCode = 0
    /\ tool = "script" => Len(stdout) = 1

\* The result the process has emitted.
EmittedResult == IF tool = "script" THEN stdout[1] ELSE result

\* C21: when no package of the packages file is selected as the target, the
\* result has package_id = "", package_name = "", import_path = "unknown",
\* an empty call_graph and both totals 0.
C21_NoTargetResult ==
    (Emitted /\ NoTargetSelected) =>
        /\ EmittedResult.package_id = ""
        /\ EmittedResult.package_name = ""
        /\ EmittedResult.import_path = "unknown"
        /\ IsEmptyResult(EmittedResult)

\* The script has run for a packages file without packages, has loaded a
\* usable package from the current directory and has emitted its call graph.
C21_Reached ==
    /\ Emitted /\ tool = "script"
    /\ packagesFile.pkgs = <<>>
    /\ Len(validPackages) > 0
    /\ EmittedResult.package_id = ""
    /\ EmittedResult.import_path = "unknown"
    /\ EmittedResult.total_functions = 1
    /\ EmittedResult.total_edges = 1


(***************************************************************************)
(* Properties of the set of packages that is analysed.                     *)
(***************************************************************************)

\* The filter over the loaded packages has run.
Filtered ==
    \/ tool = "vtab" /\ pc \in {"b_write", "exit"} /\ hasArgs /\ packagesFile.kind = "json"
    \/ tool = "script" /\ pc = "exit" /\ Len(stdout) = 1

\* C22: only packages that have both parsed syntax and resolved type
\* information enter SSA construction and the call-graph analysis.
C22_OnlyUsableAnalysed ==
    Filtered =>
        \A k \in DOMAIN validPackages :
            validPackages[k].Types /\ validPackages[k].Syntax > 0

\* vta_analyzer_bazel has analysed a single loaded package that has types
\* and no syntax, and reports a call graph for it.
C22_Reached ==
    /\ tool = "vtab" /\ Filtered
    /\ loadedPkgs = <<Loaded(TRUE, 0)>>
    /\ validPackages = loadedPkgs
    /\ result.total_functions > 0


(***************************************************************************)
(* Properties of the order of the loading strategies.                      *)
(***************************************************************************)

\* vta_analyzer_bazel has just left the load of the working directory.
CwdLoadStep == tool = "vtab" /\ pc = "b_load" /\ pc' # "b_load"

\* C23: the loader moves on to the next strategy whenever the current one
\* yields no usable package: after a load of the working directory without
\* a usable package, vta_analyzer_bazel goes on to the list of .go files.
C23_NextStrategyOnFailure ==
    [][ (CwdLoadStep /\ Len(filterValidPackages(loadedPkgs')) = 0)
           => pc' = "b_files" ]_vars

\* vta_analyzer_bazel has loaded the working directory, got packages none of
\* which has syntax or types, made no second load and has written the empty
\* result.
C23_Reached ==
    /\ tool = "vtab" /\ pc = "exit" /\ wrote
    /\ Len(loads) = 1
    /\ loads[1].patterns = "."
    /\ ~loads[1].err
    /\ Len(loads[1].pkgs) > 0
    /\ \A k \in DOMAIN loads[1].pkgs :
          ~loads[1].pkgs[k].Types /\ loads[1].pkgs[k].Syntax = 0
    /\ goFiles = <<>>
    /\ IsEmptyResult(result)


(***************************************************************************)
(* Properties of the workspace root.                                       *)
(***************************************************************************)

\* findWorkspaceRoot has returned and main has applied its fallback.
RootResolved == tool = "vta" /\ pc = "v_analyze"

\* The positions of the candidates that hold a marker file.
Matching == { k \in DOMAIN Candidates : \E m \in Markers : <<Candidates[k], m>> \in wsMarkers }

\* The positions of the matching candidates whose absolute path can be
\* computed: the absolute candidate, and the relative ones when the current
\* directory can be determined.
Resolvable == { k \in Matching : k = 1 \/ cwdOk }

\* The least position of a non-empty set of positions.
First(S) == CHOOSE k \in S : \A j \in S : k <= j

\* The root main uses when no candidate is returned.
CurrentDirectory == Root(FALSE, ".")

\* C24 as stated: the root is the absolute path of the first candidate that
\* contains a marker, and the current directory when no candidate matches.
C24_FirstMatch ==
    RootResolved =>
        workspaceRoot = IF Matching # {} THEN Root(TRUE, Candidates[First(Matching)])
                        ELSE CurrentDirectory

\* C24 amended: the root is the absolute path of the first candidate that
\* contains a marker and whose absolute path can be computed, and the
\* current directory when there is no such candidate; resolving the root
\* never ends the process and reports nothing.
C24_FirstResolvable ==
    RootResolved =>
        /\ workspaceRoot = IF Resolvable # {}
                           THEN Root(TRUE, Candidates[First(Resolvable)])
                           ELSE CurrentDirectory
        /\ exitCode = -1
        /\ stderr = <<>>

\* Two candidates hold a marker and the earlier one has been returned.
C24_Witness ==
    /\ RootResolved
    /\ Cardinality(Matching) = 2
    /\ workspaceRoot = Root(TRUE, Candidates[First(Matching)])
    /\ First(Matching) > 1


(***************************************************************************)
(* Properties of the order of the builder's stages.                        *)
(***************************************************************************)

\* The position of a control point in the pipeline: argument check, packages
\* file, package loading (working directory, then the file list), filter
\* with SSA construction, CHA, VTA and extraction, serialization, end.
Stage(p) ==
    CASE p = "b_main" -> 0
      [] p \in {"b_read", "s_read"} -> 1
      [] p \in {"b_load", "s_load"} -> 2
      [] p = "b_files" -> 3
      [] p \in {"b_filter", "s_filter"} -> 4
      [] p = "b_write" -> 5
      [] p = "exit" -> 6
      [] OTHER -> 7

\* The process is one of the two in-process analyzers.
Analyzer == tool \in {"vtab", "script"}

\* Every step goes forward in the pipeline, and the output file changes only
\* in the step that ends the process.
LinearStep ==
    Analyzer =>
        /\ Stage(pc') > Stage(pc)
        /\ (fs' # fs \/ wrote' # wrote) => (pc = "b_write" /\ pc' = "exit")

\* vta_analyzer_bazel has ended after it parsed its packages file.
EndedPastParsing ==
    tool = "vtab" /\ pc = "exit" /\ hasArgs /\ packagesFile.kind = "json"

\* The output file holds the result of the run.
ResultWritten == wrote /\ fs[outputFile] = File("result", FALSE, <<result>>)

RecordsOf(u, v) ==
    { k \in DOMAIN merged[u].nodes : merged[u].nodes[k].content.label = UnitLabel(v) }

\* C26: in the merged output of a unit, the record under the unit's own
\* label is the record of the unit's own pre-merge file, which is the first
\* input of the merge: it is the first record of the output, and no other
\* record carries that label.
C26_OwnRecordFirst ==
    tool = "none" =>
        \A u \in evaluated :
            /\ preMerge[u] = PreMergeFile(u, deps[u])
            /\ RecordsOf(u, u) = {1}
            /\ merged[u].nodes[1].content = preMerge[u].nodes[1].content

\* A unit has been merged after a dep that itself has a dep, so that the
\* merge had the unit's file and a merged file of two records as inputs.
C26_Witness ==
    /\ tool = "none"
    /\ \E u \in evaluated :
          /\ Len(deps[u]) = 1
          /\ Len(deps[deps[u][1]]) = 1
          /\ Len(merged[u].nodes) = 3
          /\ RecordsOf(u, u) = {1}


(***************************************************************************)
(* Properties of concurrent runs of the call-graph builder.                *)
(***************************************************************************)

\* Run p has returned from runWorkspaceVTAAnalysis.
Returned(p) == tool = "race" /\ runs[p].pc = "r_done"

\* C27: concurrent runs for different roots do not interfere: the result of
\* each run carries the package_id, package_name and import_path of the
\* run's own target, for every interleaving of the runs' steps on the shared
\* script file.
C27_NoInterference ==
    \A p \in DOMAIN runs :
        Returned(p) =>
            /\ runs[p].result.package_id = RunTarget(p).ID
            /\ runs[p].result.package_name = RunTarget(p).Name
            /\ runs[p].result.import_path = RunTarget(p).PkgPath

\* Run 1 has returned, without a failure, a result that carries the identity
\* of the target of run 2.
C27_Reached ==
    /\ Returned(1)
    /\ ~runs[1].failed
    /\ runs[1].result.package_id = RunTarget(2).ID
    /\ runs[1].result.import_path = RunTarget(2).PkgPath
    /\ runs[1].result.total_edges > 0


(***************************************************************************)
(* Properties of the internal flag and the version of a record.            *)
(***************************************************************************)

\* The unit's label starts with "@//" or "@@//".
WorkspaceLabel ==
    \/ SubSeq(ctx.label, 1, 3) = <<"@", "/", "/">>
    \/ SubSeq(ctx.label, 1, 4) = <<"@", "@", "/", "/">>

\* C28: the internal flag and the version of a record come from the same
\* classification: internal is true exactly when the label starts with @//
\* or @@//; a record with internal = true has the version "internal" or the
\* aspect's ref override; a record with internal = false has the version
\* the external branch computes.
C28_FlagMatchesVersion ==
    Resolved =>
        /\ provider.internal <=> WorkspaceLabel
        /\ provider.internal =>
              provider.version = IF ctx.aspectRef.has /\ ctx.aspectRef.value # <<>>
                                 THEN ctx.aspectRef.value ELSE <<"internal">>
        /\ ~provider.internal =>
              provider.version = _get_external_go_target_details(ctx).version

\* The provider of a unit labelled "@@//p:n" that carries a version
\* attribute has been computed under an aspect with a ref override.
C28_Witness ==
    /\ Resolved
    /\ SubSeq(ctx.label, 1, 4) = <<"@", "@", "/", "/">>
    /\ Truthy(ctx.rule.version)
    /\ provider.internal
    /\ provider.version = <<"ar">>


(***************************************************************************)
(* Properties of the totals of a result.                                   *)
(***************************************************************************)

RetainedIdx ==
    {k \in DOMAIN Traversal :
        Labelled(Traversal[k]) => k = FirstWith(Traversal, Traversal[k].content.label)}

\* The i-th retained position in traversal order.
RetainedAt(i) ==
    CHOOSE k \in RetainedIdx : Cardinality({j \in RetainedIdx : j < k}) = i - 1

\* C30: the merged output lists the retained nodes in order of first
\* appearance: the i-th node of the output is the i-th retained node of the
\* traversal (inputs in argument order, nodes in file order).
C30_FirstAppearanceOrder ==
    MergeDone =>
        /\ Len(Out) = Cardinality(RetainedIdx)
        /\ \A i \in DOMAIN Out : Out[i].content = Traversal[RetainedAt(i)].content

\* The second input repeats the label of the first input's node with other
\* fields and then brings a new label: the output holds the first input's
\* node and then the new one, the duplicate is dropped.
C30_Witness ==
    /\ MergeDone /\ run = 1 /\ Len(inputFiles) = 2
    /\ fs[InPath(1)].kind = "json" /\ fs[InPath(2)].kind = "json"
    /\ Len(fs[InPath(1)].nodes) = 1 /\ Len(fs[InPath(2)].nodes) = 2
    /\ LET x == fs[InPath(1)].nodes
           y == fs[InPath(2)].nodes
       IN  /\ Labelled(x[1]) /\ Labelled(y[1]) /\ Labelled(y[2])
           /\ x[1].content.label = "b" /\ y[1].content.label = "b"
           /\ y[2].content.label = "a"
           /\ y[1].content.body # x[1].content.body
           /\ Len(Out) = 2
           /\ Out[1].content = x[1].content
           /\ Out[2].content = y[2].content
====
